---- MODULE Spec2Model ----
(***************************************************************************)
(* The D1 persistence adapter of the Ramadan programme backend             *)
(* (backend/app/d1_adapter.py): the unit-of-work session D1Session over    *)
(* one table of the serverless store, and the query builder D1Query.       *)
(***************************************************************************)
EXTENDS Integers, Sequences, FiniteSets, TLC

\* ------------------------------------------------------------------ bounds
MaxId == 2          \* rows the table's AUTOINCREMENT counter may hand out
MaxPending == 3     \* operations pending in the session, over the three lists
MaxFilters == 2     \* filter tuples one query accumulates
MaxOrder == 2       \* ORDER BY directives one query accumulates
MaxRuns == 2        \* initializations of one database that report success
MaxCards == 1       \* rows of daily_cards

\* ------------------------------------------------------------ value domain
\* Python values are written as strings so that any two can be compared.
Absent == "ABSENT"                  \* obj.__dict__ holds no column key (none was
                                    \* set, or only relationships and _private keys)
PyNone == "None"                    \* reaches a row as SQL NULL through raw UPDATEs
PyDate == "date(2026-03-01)"        \* a datetime.date object
IsoText == "2026-03-01"             \* the str its isoformat() returns
NoRow == "NOROW"                    \* no row under that primary key
NoneId == 0                         \* id is None (no row ever has id 0)

AttrVals == {Absent, PyNone, PyDate, IsoText}
Objs == {"o1", "o2"}                \* entity objects, by identity
Ids == 1..MaxId

VARIABLES
    storage,          \* the table: primary key -> stored value of column val, or NoRow
    seq,              \* sqlite_sequence of the table: the last id handed out
    heap,             \* entity objects: obj -> [id, val]
    pending_adds,     \* D1Session._pending_adds
    pending_updates,  \* D1Session._pending_updates
    pending_deletes,  \* D1Session._pending_deletes
    closed,           \* D1Session._closed
    log,              \* statements applied by the call just made, in order
    last,             \* the call just made on the session: [op, outcome, ret, n]
    retry,            \* the call just made is a commit issued right after a
                      \* commit that a statement failed
    qfilters,         \* D1Query._filters of the query being built
    qorder,           \* D1Query._order_by_clauses of it
    qexpr,            \* the expression last passed to filter / filter_by
    qresult,          \* what all() or count() returned for it
    backend,          \* "d1" on the Workers runtime, "conventional" on a server
    db,               \* the application database: its tables and row counts
    pc,               \* where each initialization or probe request stands
    runs,             \* initializations of this database that reported success
    ilast,            \* the step just taken on the database: [proc, step, result]
    report,           \* what the initialization routine just called gave back
    req,              \* the POST /system/initialize-database just received
    env,              \* the signals the environment detection reads
    detected,         \* what detect_environment() last returned
    rq,               \* the requests that depend on get_db, and their sessions
    users,            \* the users table: internal id -> row
    halqas,           \* the halqas table: internal id -> row
    daily_cards,      \* the daily_cards table: a set of rows
    tx,               \* the account requests in flight, and what each has read
    resp,             \* the account request just answered: [op, status, ...]
    scored,           \* the card last read, with the derived values computed for it
    sent              \* the statement last translated for D1, with its entity

svars == <<storage, seq, heap, pending_adds, pending_updates, pending_deletes,
           closed, log, last, retry>>
qvars == <<qfilters, qorder, qexpr, qresult>>
ivars == <<backend, db, pc, runs, ilast>>
uvars == <<users, halqas, daily_cards, tx, resp, scored, sent>>
avars == <<report, req, env, detected, rq, uvars>>
vars == <<svars, qvars, ivars, avars>>

Range(s) == {s[i] : i \in 1..Len(s)}
NoRet == [found |-> FALSE, id |-> NoneId, val |-> PyNone]
\* op: the method; outcome: "ok" or the exception raised; ret: what get returned
\* (for merge, found is the test "obj in self._pending_updates"); n: the id asked
\* of get, the statements commit sent to the store, the operations rollback dropped
Call(op, outcome, ret, n) == [op |-> op, outcome |-> outcome, ret |-> ret, n |-> n]
\* a call that sent no statement to the store
Returns(op, outcome, ret, n) ==
    /\ last' = Call(op, outcome, ret, n) /\ log' = <<>> /\ retry' = FALSE
    /\ UNCHANGED <<qvars, ivars, avars>>
NPending == Len(pending_adds) + Len(pending_updates) + Len(pending_deletes)

\* date.isoformat() on temporal values, every other value as it is
isoformat(v) == IF v = PyDate THEN IsoText ELSE v

\* -------------------------------------------------------------- statements
\* the keys of obj.__dict__ that become columns: not id, not a relationship
IsColumnValue(v) == v # Absent

MutInsertObject_OnlyNew(o, acc, failAt) ==
    LET e == acc.hp[o] IN
    IF ~IsColumnValue(e.val) \/ e.id # NoneId THEN acc
    ELSE IF acc.n + 1 = failAt THEN [acc EXCEPT !.n = @ + 1, !.ok = FALSE]
    ELSE LET last_row_id == acc.sq + 1 IN
         [acc EXCEPT !.st[last_row_id] = isoformat(e.val),
                     !.sq = last_row_id,
                     !.hp[o].id = last_row_id,
                     !.lg = Append(@, [kind |-> "INSERT", obj |-> o,
                                       id |-> last_row_id, val |-> isoformat(e.val),
                                       bound |-> <<isoformat(e.val)>>]),
                     !.n = @ + 1]

MutInsertObject_NoWriteBack(o, acc, failAt) ==
    LET e == acc.hp[o] IN
    IF ~IsColumnValue(e.val) THEN acc
    ELSE IF acc.n + 1 = failAt THEN [acc EXCEPT !.n = @ + 1, !.ok = FALSE]
    ELSE LET last_row_id == acc.sq + 1 IN
         [acc EXCEPT !.st[last_row_id] = isoformat(e.val),
                     !.sq = last_row_id,
                     !.lg = Append(@, [kind |-> "INSERT", obj |-> o,
                                       id |-> last_row_id, val |-> isoformat(e.val),
                                       bound |-> <<isoformat(e.val)>>]),
                     !.n = @ + 1]

\* One step of commit: acc = [st, sq, hp, lg, n, ok]; n counts the statements
\* sent to the store, the failAt-th of which the store rejects.
insert_object(o, acc, failAt) ==
    LET e == acc.hp[o] IN
    IF ~IsColumnValue(e.val) THEN acc
    ELSE IF acc.n + 1 = failAt THEN [acc EXCEPT !.n = @ + 1, !.ok = FALSE]
    ELSE LET last_row_id == acc.sq + 1 IN
         [acc EXCEPT !.st[last_row_id] = isoformat(e.val),
                     !.sq = last_row_id,
                     !.hp[o].id = last_row_id,
                     !.lg = Append(@, [kind |-> "INSERT", obj |-> o,
                                       id |-> last_row_id, val |-> isoformat(e.val),
                                       bound |-> <<isoformat(e.val)>>]),
                     !.n = @ + 1]

MutSetValues_BindNone(v) == <<isoformat(v)>>

\* the values bound to the SET clauses of an UPDATE (the id bound to its WHERE
\* clause is not listed): None is written as the literal "key = NULL"
set_values(v) == IF v = PyNone THEN <<>> ELSE <<isoformat(v)>>

update_object(o, acc, failAt) ==
    LET e == acc.hp[o] IN
    IF e.id = NoneId THEN acc
    ELSE IF ~IsColumnValue(e.val) THEN acc
    ELSE IF acc.n + 1 = failAt THEN [acc EXCEPT !.n = @ + 1, !.ok = FALSE]
    ELSE [acc EXCEPT !.st[e.id] = IF @ = NoRow THEN NoRow ELSE isoformat(e.val),
                     !.lg = Append(@, [kind |-> "UPDATE", obj |-> o,
                                       id |-> e.id, val |-> isoformat(e.val),
                                       bound |-> set_values(e.val)]),
                     !.n = @ + 1]

delete_object(o, acc, failAt) ==
    LET e == acc.hp[o] IN
    IF e.id = NoneId THEN acc
    ELSE IF acc.n + 1 = failAt THEN [acc EXCEPT !.n = @ + 1, !.ok = FALSE]
    ELSE [acc EXCEPT !.st[e.id] = NoRow,
                     !.lg = Append(@, [kind |-> "DELETE", obj |-> o,
                                       id |-> e.id, val |-> NoRow, bound |-> <<>>]),
                     !.n = @ + 1]

Tagged(kind, list) == [i \in 1..Len(list) |-> [kind |-> kind, obj |-> list[i]]]

MutCommitOrder_UpdatesFirst(adds, updates, deletes) ==
    Tagged("UPDATE", updates) \o Tagged("INSERT", adds) \o Tagged("DELETE", deletes)

\* the order in which commit walks the three lists
CommitOrder(adds, updates, deletes) ==
    Tagged("INSERT", adds) \o Tagged("UPDATE", updates) \o Tagged("DELETE", deletes)

ApplyOp(op, acc, failAt) ==
    CASE op.kind = "INSERT" -> insert_object(op.obj, acc, failAt)
      [] op.kind = "UPDATE" -> update_object(op.obj, acc, failAt)
      [] OTHER -> delete_object(op.obj, acc, failAt)

RECURSIVE RunOps(_, _, _)
RunOps(ops, acc, failAt) ==
    IF ops = <<>> \/ ~acc.ok THEN acc
    ELSE RunOps(Tail(ops), ApplyOp(Head(ops), acc, failAt), failAt)

MutAfterCommit_AlwaysClear(list, ok) == <<>>
MutAfterCommit_NeverClear(list, ok) == list

\* a pending list after commit: cleared on success, kept when a statement raised
AfterCommit(list, ok) == IF ok THEN <<>> ELSE list

\* no expression passed yet, and no result returned yet
NoExpr == [type |-> "", op |-> "", field |-> "", value |-> <<>>, right |-> "",
           clauses |-> <<>>]
QResult(call, outcome, rows, cnt) ==
    [done |-> TRUE, call |-> call, outcome |-> outcome, rows |-> rows, cnt |-> cnt]
NoResult == [done |-> FALSE, call |-> "", outcome |-> "", rows |-> <<>>, cnt |-> 0]

\* ---- the application database as initialization sees it
\* the requests that reach the probe: the cron tick, an authorized POST
\* /system/initialize-database, and GET /system/health or /system/status
Procs == {"cron", "post", "health"}
\* core: users, halqas and site_settings exist; cards: daily_cards is absent,
\* has the columns of an earlier release ("old") or the current ones ("new");
\* nadmin, role: the accounts with the primary administrator's email;
\* nsettings, ncards: rows of site_settings and daily_cards
Database(core, cards, nadmin, role, nsettings, ncards) ==
    [core |-> core, cards |-> cards, nadmin |-> nadmin, role |-> role,
     nsettings |-> nsettings, ncards |-> ncards]
EmptyDatabase == Database(FALSE, "absent", 0, "", 0, 0)
IStep(proc, step, result) == [proc |-> proc, step |-> step, result |-> result]
\* the report dict of an initialization routine, or the exception it let
\* through (outcome "raised"); errors: the length of report["errors"]
Report(fn, outcome, success, tables, settings, admin, errors) ==
    [fn |-> fn, outcome |-> outcome, success |-> success,
     tables_created |-> tables, settings_created |-> settings,
     admin_created |-> admin, errors |-> errors]
NoReport == Report("", "", FALSE, FALSE, FALSE, FALSE, 0)
\* a POST /system/initialize-database: the configured INIT_SECRET, the
\* X-Init-Secret header, the bearer credentials, and how the request was taken
Req(secret, header, cred, verdict) ==
    [secret |-> secret, header |-> header, cred |-> cred, verdict |-> verdict]
NoReq == Req("None", "None", "none", "")
\* the signals of the process: CLOUDFLARE_WORKERS or CF_PAGES is set; 'pyodide'
\* is in sys.modules; the scheme of settings.DATABASE_URL
Env(workers_var, pyodide, url) ==
    [workers_var |-> workers_var, pyodide |-> pyodide, url |-> url]
\* what the detection reads in one context: the process signals and whether
\* the context variable _d1_binding is set there
Context(e, binding) ==
    [workers_var |-> e.workers_var, pyodide |-> e.pyodide, url |-> e.url,
     binding |-> binding]
Detected(binding, value) == [binding |-> binding, value |-> value]
Requests == {"r1", "r2"}
\* a request that depends on get_db: where it stands, whether its context holds
\* the binding, the class of the session it was given, whether that session is
\* open, and how its handler ended
Rq(at, binding, kind, open, exit) ==
    [pc |-> at, binding |-> binding, kind |-> kind, open |-> open, exit |-> exit]
NoRq == Rq("idle", FALSE, "", FALSE, "")
\* ---- the tables behind the account, group and card routes
MaxUsers == 4
UserIds == 1..MaxUsers
MaxHalqas == 2
HalqaIds == 1..MaxHalqas
\* a row of users (models/user.py): the email is a string of characters, the
\* membership number is 0 for NULL, the hash is named by the scheme that
\* produced it
User(email, member_id, role, status, hash) ==
    [email |-> email, member_id |-> member_id, role |-> role,
     status |-> status, hash |-> hash]
NoUser == User(<<>>, 0, "", "", "")
\* a row of halqas (models/halqa.py); supervisor_id 0 is NULL
Halqa(present, supervisor_id) ==
    [present |-> present, supervisor_id |-> supervisor_id]
NoHalqa == Halqa(FALSE, 0)
\* a row of daily_cards (models/daily_card.py): its owner, its date, and one
\* value standing for its score columns
DailyCard(user_id, date, val) ==
    [user_id |-> user_id, date |-> date, val |-> val]
\* an account request between two statements: its handler, its arguments, and
\* where it stands
Tx(op, user_id, date, val, at) ==
    [op |-> op, user_id |-> user_id, date |-> date, val |-> val, at |-> at,
     email |-> <<>>]
NoTx == Tx("", 0, 0, 0, "idle")
\* how the account operation just made ended: the operation, the email it was
\* sent, whether the password sent with it was the account's ("" when none
\* was sent), the HTTP status (0 outside a request), whether a token came with
\* it, and the account it was about (for the backfill, how many accounts it
\* numbered)
Resp(op, email, status, token, user_id) ==
    [op |-> op, email |-> email, password |-> "", status |-> status,
     error |-> "", token |-> token, user_id |-> user_id]
NoResp == Resp("", <<>>, 0, FALSE, 0)
\* the score columns of one card, and total_score, max_score and percentage
\* (in tenths) as computed for it
Scored(card, total, max, percentage) ==
    [card |-> card, total |-> total, max |-> max, percentage |-> percentage]
NoScored == Scored(<<>>, 0, 0, 0)
\* a statement D1Session built: INSERT or UPDATE, the handler whose entity it
\* is, the entity (its table and its __dict__, a set of <<key, kind of value>>)
\* and the columns the statement names
Sent(kind, op, entity, columns) ==
    [kind |-> kind, op |-> op, entity |-> entity, columns |-> columns]
NoSent == Sent("", "", [table |-> "", dict |-> {}], {})
UIdle ==
    /\ scored = NoScored
    /\ sent = NoSent
    /\ users = [i \in UserIds |-> NoUser]
    /\ halqas = [h \in HalqaIds |-> NoHalqa]
    /\ daily_cards = {}
    /\ tx = [r \in Requests |-> NoTx]
    /\ resp = NoResp
\* the application layer at rest
AIdle ==
    /\ report = NoReport
    /\ req = NoReq
    /\ env = Env(TRUE, TRUE, "sqlite")
    /\ detected = Detected(FALSE, "")
    /\ rq = [r \in Requests |-> NoRq]
    /\ UIdle

\* no database in view: the session and query builder on their own table
IIdle ==
    /\ backend = "d1"
    /\ db = EmptyDatabase
    /\ pc = [p \in Procs |-> "idle"]
    /\ runs = 0
    /\ ilast = IStep("", "", "")
    /\ AIdle

\* --------------------------------------------------------------- D1Session
SInit ==
    /\ storage = [i \in Ids |-> NoRow]
    /\ seq = 0
    /\ heap = [o \in Objs |-> [id |-> NoneId, val |-> Absent]]
    /\ pending_adds = <<>>
    /\ pending_updates = <<>>
    /\ pending_deletes = <<>>
    /\ closed = FALSE
    /\ log = <<>>
    /\ retry = FALSE
    /\ last = Call("init", "ok", NoRet, 0)
    /\ qfilters = <<>>
    /\ qorder = <<>>
    /\ qexpr = NoExpr
    /\ qresult = NoResult
    /\ IIdle

Init == SInit

Referenced(o) ==
    o \in Range(pending_adds) \cup Range(pending_updates) \cup Range(pending_deletes)

\* a handler builds a new entity, Model(val=v): it has no id yet
Construct(o, v) ==
    /\ ~Referenced(o)
    /\ heap' = [heap EXCEPT ![o] = [id |-> NoneId, val |-> v]]
    /\ Returns("caller", "ok", NoRet, 0)
    /\ UNCHANGED <<storage, seq, pending_adds, pending_updates, pending_deletes,
                   closed>>

\* a handler assigns a field of an entity it holds
SetAttr(o, v) ==
    /\ heap[o].val # v
    /\ heap' = [heap EXCEPT ![o].val = v]
    /\ Returns("caller", "ok", NoRet, 0)
    /\ UNCHANGED <<storage, seq, pending_adds, pending_updates, pending_deletes,
                   closed>>

MutAdd_Autoflush(o) ==
    LET r == insert_object(o, [st |-> storage, sq |-> seq, hp |-> heap,
                               lg |-> <<>>, n |-> 0, ok |-> TRUE], 0)
    IN /\ NPending < MaxPending
       /\ seq < MaxId
       /\ pending_adds' = Append(pending_adds, o)
       /\ storage' = r.st /\ seq' = r.sq /\ heap' = r.hp
       /\ Returns("add", "ok", NoRet, 0)
       /\ UNCHANGED <<pending_updates, pending_deletes, closed>>

add(o) ==
    /\ NPending < MaxPending
    /\ pending_adds' = Append(pending_adds, o)
    /\ Returns("add", "ok", NoRet, 0)
    /\ UNCHANGED <<storage, seq, heap, pending_updates, pending_deletes, closed>>

MutMergeInto_AlwaysAppend(list, o) == Append(list, o)

MergeInto(list, o) == IF o \in Range(list) THEN list ELSE Append(list, o)

merge(o) ==
    /\ o \in Range(pending_updates) \/ NPending < MaxPending
    /\ pending_updates' = MergeInto(pending_updates, o)
    /\ Returns("merge", "ok", [NoRet EXCEPT !.found = o \in Range(pending_updates)], 0)
    /\ UNCHANGED <<storage, seq, heap, pending_adds, pending_deletes, closed>>

delete(o) ==
    /\ NPending < MaxPending
    /\ pending_deletes' = Append(pending_deletes, o)
    /\ Returns("delete", "ok", NoRet, 0)
    /\ UNCHANGED <<storage, seq, heap, pending_adds, pending_updates, closed>>

MutRolledBack_Keep(list) == list

RolledBack(list) == <<>>

rollback ==
    /\ pending_adds' = RolledBack(pending_adds)
    /\ pending_updates' = RolledBack(pending_updates)
    /\ pending_deletes' = RolledBack(pending_deletes)
    /\ Returns("rollback", "ok", NoRet, NPending)
    /\ UNCHANGED <<storage, seq, heap, closed>>

CommitBody(op, failAt) ==
    IF closed
    THEN /\ Returns(op, "RuntimeError", NoRet, 0)
         /\ UNCHANGED <<storage, seq, heap, pending_adds, pending_updates,
                        pending_deletes, closed>>
    ELSE LET ops == CommitOrder(pending_adds, pending_updates, pending_deletes)
         IN /\ seq + Len(pending_adds) <= MaxId
            /\ failAt <= Len(ops)
            /\ \E r \in {RunOps(ops, [st |-> storage, sq |-> seq, hp |-> heap,
                                      lg |-> <<>>, n |-> 0, ok |-> TRUE], failAt)} :
                 /\ storage' = r.st
                 /\ seq' = r.sq
                 /\ heap' = r.hp
                 /\ log' = r.lg
                 /\ pending_adds' = AfterCommit(pending_adds, r.ok)
                 /\ pending_updates' = AfterCommit(pending_updates, r.ok)
                 /\ pending_deletes' = AfterCommit(pending_deletes, r.ok)
                 /\ last' = Call(op, IF r.ok THEN "ok" ELSE "StorageError", NoRet, r.n)
                 /\ retry' = (last.op = "commit" /\ last.outcome = "StorageError")
                 /\ UNCHANGED <<closed, qvars, ivars, avars>>

commit == \E failAt \in 0..MaxPending : CommitBody("commit", failAt)

\* flush() is "await self.commit()"
flush == commit

MutGetResult_NoEmptyCheck(st, obj_id) ==
    IF obj_id = NoneId THEN NoRet
    ELSE [found |-> TRUE, id |-> obj_id, val |-> st[obj_id]]

\* the row mapped by _row_to_model, or None
GetResult(st, obj_id) ==
    IF obj_id = NoneId THEN NoRet
    ELSE IF obj_id \notin Ids \/ st[obj_id] = NoRow THEN NoRet
    ELSE [found |-> TRUE, id |-> obj_id, val |-> st[obj_id]]

get(obj_id) ==
    /\ Returns("get", "ok", GetResult(storage, obj_id), obj_id)
    /\ UNCHANGED <<storage, seq, heap, pending_adds, pending_updates,
                   pending_deletes, closed>>

refresh(o) ==
    /\ IF closed
       THEN Returns("refresh", "RuntimeError", NoRet, 0) /\ UNCHANGED heap
       ELSE /\ Returns("refresh", "ok", NoRet, 0)
            /\ heap' = IF heap[o].id # NoneId /\ storage[heap[o].id] # NoRow
                       THEN [heap EXCEPT ![o].val = storage[heap[o].id]]
                       ELSE heap
    /\ UNCHANGED <<storage, seq, pending_adds, pending_updates, pending_deletes,
                   closed>>

\* raw SQL text handed to execute / execute_many, by what the store does with it
Raw(kind, id) == [kind |-> kind, id |-> id]
RawStatements == {Raw(k, i) : k \in {"DELETE", "UPDATE"}, i \in Ids}

RawApply(st, stmt) ==
    IF stmt.kind = "DELETE" THEN [st EXCEPT ![stmt.id] = NoRow]
    ELSE [st EXCEPT ![stmt.id] = IF @ = NoRow THEN NoRow ELSE PyNone]

execute(stmt) ==
    /\ IF closed
       THEN Returns("execute", "RuntimeError", NoRet, 0) /\ UNCHANGED storage
       ELSE Returns("execute", "ok", NoRet, 0) /\ storage' = RawApply(storage, stmt)
    /\ UNCHANGED <<seq, heap, pending_adds, pending_updates, pending_deletes, closed>>

execute_many(queries) ==
    /\ IF closed
       THEN Returns("execute_many", "RuntimeError", NoRet, 0) /\ UNCHANGED storage
       ELSE /\ Returns("execute_many", "ok", NoRet, 0)
            /\ storage' = RawApply(RawApply(storage, queries[1]), queries[2])
    /\ UNCHANGED <<seq, heap, pending_adds, pending_updates, pending_deletes, closed>>

close ==
    /\ closed' = TRUE
    /\ Returns("close", "ok", NoRet, 0)
    /\ UNCHANGED <<storage, seq, heap, pending_adds, pending_updates,
                   pending_deletes>>

\* the unit of work: entities built and changed by the handlers, enqueued,
\* and flushed or dropped
UnitOfWork(O) ==
    \/ \E o \in O, v \in {Absent, PyDate} : Construct(o, v)
    \/ \E o \in O : SetAttr(o, PyDate)
    \/ \E o \in O : add(o)
    \/ \E o \in O : merge(o)
    \/ \E o \in O : delete(o)
    \/ rollback
    \/ commit
    \/ flush

Next == UnitOfWork(Objs)

\* every call of the session contract, on one entity, with the session closed
\* at any time
NextContract ==
    \/ UnitOfWork({"o1"})
    \/ \E o \in {"o1"} : SetAttr(o, PyNone)
    \/ \E obj_id \in {NoneId} \cup Ids : get(obj_id)
    \/ \E o \in {"o1"} : refresh(o)
    \/ \E stmt \in RawStatements : execute(stmt)
    \/ \E i, j \in Ids : i < j /\ execute_many(<<Raw("DELETE", i), Raw("DELETE", j)>>)
    \/ close

Spec == Init /\ [][Next]_vars
SpecContract == Init /\ [][NextContract]_vars

\* ----------------------------------------------------------------- D1Query
\* SQLAlchemy filter expressions, by the attributes the translator reads:
\* the class name, operator.__name__, left.key, and the right-hand side, which
\* is a bound value, or for in_() either a list of bound clauses or one
\* expanding bind parameter that has no clauses.
Cond(type, op, field, value, right, clauses) ==
    [type |-> type, op |-> op, field |-> field, value |-> value,
     right |-> right, clauses |-> clauses]
Binary(op, field, value) == Cond("BinaryExpression", op, field, value, "value", <<>>)
InClauses(field, values) == Cond("BinaryExpression", "in_op", field, values, "clauses", <<>>)
InBind(field, values) == Cond("BinaryExpression", "in_op", field, values, "bindparam", <<>>)
Or(clauses) == Cond("BooleanClauseList", "or_", "", <<>>, "", clauses)
And(clauses) == Cond("BooleanClauseList", "and_", "", <<>>, "", clauses)

\* filter tuples: ('param', field, op, value), ('in', field, values), ('or', subs)
Filter(tag, field, op, value, subs) ==
    [tag |-> tag, field |-> field, op |-> op, value |-> value, subs |-> subs]

op_map(op_name) ==
    CASE op_name = "eq" -> "="
      [] op_name = "ne" -> "!="
      [] op_name = "lt" -> "<"
      [] op_name = "le" -> "<="
      [] op_name = "gt" -> ">"
      [] op_name = "ge" -> ">="
      [] op_name = "is_" -> "IS"
      [] op_name = "is_not" -> "IS NOT"
      [] OTHER -> "="

RECURSIVE ParseAll(_)
RECURSIVE parse_sqlalchemy_condition(_)
ParseAll(clauses) ==
    IF clauses = <<>> THEN <<>>
    ELSE parse_sqlalchemy_condition(Head(clauses)) \o ParseAll(Tail(clauses))

\* a bound date is written as ISO text; other values are bound as they are
\* (the key column id holds integers; the other column of the model table
\* holds dates and texts, whatever name the handler's expression gives it)
BoundValue(field, value) == IF field # "id" THEN isoformat(value) ELSE value

\* what is left of an and_() in its rendered text once the text is split at
\* the first ">" or "<": the "=" of a ">=" or "<=" and the placeholder
StrTail == "= :param_1"
GtOps == {"gt", "ge"}
LtOps == {"lt", "le"}
FirstWith(clauses, ops) ==
    LET hits == {i \in 1..Len(clauses) : clauses[i].op \in ops}
    IN IF hits = {} THEN 0 ELSE CHOOSE i \in hits : \A j \in hits : i <= j

\* the fallback on str(condition): ">=", "<=", "!=" are followed by a
\* placeholder and skipped; ">" and then "<" split at their first occurrence
ParseFromString(clauses) ==
    LET g == FirstWith(clauses, GtOps)
        l == FirstWith(clauses, LtOps)
    IN IF g > 0 /\ clauses[g].op = "ge"
       THEN <<Filter("param", clauses[g].field, ">", StrTail, <<>>)>>
       ELSE IF l > 0 /\ clauses[l].op = "le"
       THEN <<Filter("param", clauses[l].field, "<", StrTail, <<>>)>>
       ELSE <<>>

parse_sqlalchemy_condition(condition) ==
    IF condition.type = "BooleanClauseList" /\ condition.op = "or_"
           /\ ParseAll(condition.clauses) # <<>>
    THEN <<Filter("or", "", "", <<>>, ParseAll(condition.clauses))>>
    ELSE IF condition.type = "BinaryExpression"
    THEN IF condition.op \in {"ilike_op", "not_ilike_op"} /\ condition.value # PyNone
         THEN <<Filter("param", condition.field, "LIKE", condition.value, <<>>)>>
         ELSE IF condition.op \in {"in_op", "not_in_op"}
         THEN <<Filter("in", condition.field, "",
                       IF condition.right = "clauses" THEN condition.value ELSE <<>>,
                       <<>>)>>
         ELSE <<Filter("param", condition.field, op_map(condition.op),
                       BoundValue(condition.field, condition.value), <<>>)>>
    ELSE ParseFromString(condition.clauses)

\* the SQL text _build_filter returns, as its syntax tree: field op ?,
\* field IN (?, ...), 1 = 0, ( ... OR ... ), or None
NoClause == [sql |-> "None", field |-> "", op |-> "", params |-> <<>>, subs |-> <<>>]
Clause(sql, field, op, params, subs) ==
    [sql |-> sql, field |-> field, op |-> op, params |-> params, subs |-> subs]

RECURSIVE BuildAll(_)
RECURSIVE build_filter(_)
\* the clauses of a list of filters, those that are None left out
BuildAll(filters) ==
    IF filters = <<>> THEN <<>>
    ELSE LET clause == build_filter(Head(filters))
         IN (IF clause = NoClause THEN <<>> ELSE <<clause>>) \o BuildAll(Tail(filters))

MutBuildFilter_EmptyInDropped(f) ==
    IF f.tag = "param" THEN Clause("cmp", f.field, f.op, <<f.value>>, <<>>)
    ELSE IF f.tag = "in"
    THEN IF f.value # <<>> THEN Clause("in", f.field, "IN", f.value, <<>>)
         ELSE NoClause
    ELSE IF f.tag = "or"
    THEN IF BuildAll(f.subs) # <<>> THEN Clause("or", "", "OR", <<>>, BuildAll(f.subs))
         ELSE NoClause
    ELSE NoClause

build_filter(f) ==
    IF f.tag = "param" THEN Clause("cmp", f.field, f.op, <<f.value>>, <<>>)
    ELSE IF f.tag = "in"
    THEN IF f.value # <<>> THEN Clause("in", f.field, "IN", f.value, <<>>)
         ELSE Clause("1 = 0", "", "", <<>>, <<>>)
    ELSE IF f.tag = "or"
    THEN IF BuildAll(f.subs) # <<>> THEN Clause("or", "", "OR", <<>>, BuildAll(f.subs))
         ELSE NoClause
    ELSE NoClause

\* ---- the store's evaluation of a WHERE clause on a row, in SQL's three
\* truth values ("T", "F", "U" for NULL)
Cell(row, field) == IF field = "id" THEN row.id ELSE row.val
\* the column val is nullable and text; the key column id is never NULL
IsNull(field, v) == field # "id" /\ v = PyNone
\* text patterns of the searches and the texts they match
PatHit == "%03%"
PatMiss == "%zz%"
Like(a, pattern) == pattern = PatHit /\ a = IsoText
\* the store's order of the values of a column: integers by value, texts by
\* their bytes
TextRank(v) == CASE v = PatHit -> 1 [] v = PatMiss -> 2 [] v = IsoText -> 3
                 [] v = StrTail -> 4 [] OTHER -> 0
Ord(field, v) == IF field = "id" THEN v ELSE TextRank(v)
Compare(field, a, op, b) ==
    IF IsNull(field, a) \/ IsNull(field, b)
    THEN (IF op = "IS" THEN (IF IsNull(field, a) /\ IsNull(field, b) THEN "T" ELSE "F")
          ELSE IF op = "IS NOT"
          THEN (IF IsNull(field, a) /\ IsNull(field, b) THEN "F" ELSE "T")
          ELSE "U")
    ELSE LET holds == CASE op \in {"=", "IS"} -> a = b
                        [] op \in {"!=", "IS NOT"} -> a # b
                        [] op = "LIKE" -> Like(a, b)
                        [] op = "<" -> Ord(field, a) < Ord(field, b)
                        [] op = "<=" -> Ord(field, a) <= Ord(field, b)
                        [] op = ">" -> Ord(field, a) > Ord(field, b)
                        [] OTHER -> Ord(field, a) >= Ord(field, b)
         IN IF holds THEN "T" ELSE "F"
Or3(s) == IF "T" \in s THEN "T" ELSE IF "U" \in s THEN "U" ELSE "F"
And3(s) == IF "F" \in s THEN "F" ELSE IF "U" \in s THEN "U" ELSE "T"

RECURSIVE Eval(_, _)
Eval(row, clause) ==
    CASE clause.sql = "cmp" ->
            Compare(clause.field, Cell(row, clause.field), clause.op, clause.params[1])
      [] clause.sql = "in" ->
            Or3({Compare(clause.field, Cell(row, clause.field), "=", clause.params[i]) :
                    i \in 1..Len(clause.params)})
      [] clause.sql = "1 = 0" -> "F"
      [] OTHER -> Or3({Eval(row, clause.subs[i]) : i \in 1..Len(clause.subs)})

\* the rows of the table in the store's natural order, by rowid
RECURSIVE TableRows(_, _)
TableRows(st, i) ==
    IF i > MaxId THEN <<>>
    ELSE (IF st[i] = NoRow THEN <<>> ELSE <<[id |-> i, val |-> st[i]]>>)
             \o TableRows(st, i + 1)

\* SELECT * FROM t [WHERE c1 AND c2 ...]
execute_query(st, filters) ==
    LET where_clauses == BuildAll(filters)
    IN SelectSeq(TableRows(st, 1),
                 LAMBDA row : And3({Eval(row, where_clauses[i]) :
                                       i \in 1..Len(where_clauses)}) = "T")

\* ---- ORDER BY
\* a column expression passed to order_by: a plain column, or desc() / asc()
Col(field) == [field |-> field, modifier |-> ""]
Desc(field) == [field |-> field, modifier |-> "desc"]
Asc(field) == [field |-> field, modifier |-> "asc"]
\* str(col).upper() holds "DESC": the name of the column does
NameHoldsDESC(field) == field = "extra_work_description"
\* the directive order_by appends for one column expression
order_by_clause(col) ==
    IF col.modifier # ""
    THEN [field |-> col.field, dir |-> IF col.modifier = "desc" THEN "DESC" ELSE "ASC"]
    ELSE IF NameHoldsDESC(col.field) THEN [field |-> col.field, dir |-> "DESC"]
    ELSE [field |-> col.field, dir |-> "ASC"]

\* row r1 sorts strictly before r2 under ORDER BY d1, d2, ...; NULL sorts
\* lowest
RECURSIVE Before(_, _, _)
Before(r1, r2, order) ==
    IF order = <<>> THEN FALSE
    ELSE LET d == Head(order)
             a == Ord(d.field, Cell(r1, d.field))
             b == Ord(d.field, Cell(r2, d.field))
         IN IF a = b THEN Before(r1, r2, Tail(order))
            ELSE IF d.dir = "ASC" THEN a < b ELSE a > b
Reorderings(rows) ==
    {[i \in 1..Len(rows) |-> rows[f[i]]] :
        f \in {g \in [1..Len(rows) -> 1..Len(rows)] :
                  \A i, j \in 1..Len(rows) : g[i] = g[j] => i = j}}
\* the row sequences the store may return: the scan order when there is no
\* ORDER BY, any order that respects the directives otherwise
order_by_results(rows, order) ==
    IF order = <<>> THEN {rows}
    ELSE {p \in Reorderings(rows) :
             \A i, j \in 1..Len(p) : i < j => ~Before(p[j], p[i], order)}

\* the expressions and keyword filters the handlers pass
BinaryConds ==
    {Binary(op, "id", 1) : op \in {"eq", "ne", "gt"}} \cup {Binary("eq", "val", IsoText)}
InConds ==
    {InClauses("id", vs) : vs \in {<<>>, <<1>>, <<1, 2>>}}
        \cup {InBind("id", vs) : vs \in {<<>>, <<2>>}}
OrConds ==
    {Or(<<c>>) : c \in InConds \cup BinaryConds}
        \cup {Or(<<c, Binary("gt", "id", 1)>>) : c \in InConds}
Conds == BinaryConds \cup InConds \cup OrConds

QInit ==
    /\ storage \in [Ids -> {NoRow, PyNone, IsoText}]
    /\ seq = MaxId
    /\ heap = [o \in Objs |-> [id |-> NoneId, val |-> Absent]]
    /\ pending_adds = <<>>
    /\ pending_updates = <<>>
    /\ pending_deletes = <<>>
    /\ closed = FALSE
    /\ log = <<>>
    /\ retry = FALSE
    /\ last = Call("init", "ok", NoRet, 0)
    /\ qfilters = <<>>
    /\ qorder = <<>>
    /\ qexpr = NoExpr
    /\ qresult = NoResult
    /\ IIdle

\* session.query(Model): a new builder
query ==
    /\ qfilters # <<>> \/ qorder # <<>> \/ qexpr # NoExpr \/ qresult.done
    /\ qfilters' = <<>>
    /\ qorder' = <<>>
    /\ qexpr' = NoExpr
    /\ qresult' = NoResult
    /\ UNCHANGED <<svars, ivars, avars>>

filter_by(key, value) ==
    /\ Len(qfilters) < MaxFilters
    /\ qfilters' = Append(qfilters, Filter("param", key, "=", BoundValue(key, value), <<>>))
    /\ qexpr' = Binary("eq", key, value)
    /\ qresult' = NoResult
    /\ UNCHANGED <<svars, ivars, avars, qorder>>

filter(condition) ==
    /\ Len(qfilters) + Len(parse_sqlalchemy_condition(condition)) <= MaxFilters
    /\ qfilters' = qfilters \o parse_sqlalchemy_condition(condition)
    /\ qexpr' = condition
    /\ qresult' = NoResult
    /\ UNCHANGED <<svars, ivars, avars, qorder>>

order_by(col) ==
    /\ Len(qorder) < MaxOrder
    /\ qorder' = Append(qorder, order_by_clause(col))
    /\ qresult' = NoResult
    /\ UNCHANGED <<svars, ivars, avars, qfilters, qexpr>>

all ==
    /\ ~qresult.done
    /\ \E rows \in order_by_results(execute_query(storage, qfilters), qorder) :
           qresult' = QResult("all", "ok", rows, 0)
    /\ UNCHANGED <<svars, ivars, avars, qfilters, qorder, qexpr>>

\* count(): the store answers one row holding cnt, or answers in a shape
\* that holds no row, or raises; without a binding the call raises before
\* any statement is sent
count(answer) ==
    /\ ~qresult.done
    /\ qresult' =
          CASE answer = "row" ->
                  QResult("count", "ok", <<>>, Len(execute_query(storage, qfilters)))
            [] answer = "no rows" -> QResult("count", "ok", <<>>, 0)
            [] answer = "statement error" -> QResult("count", "StorageError", <<>>, 0)
            [] OTHER -> QResult("count", "AttributeError", <<>>, 0)
    /\ UNCHANGED <<svars, ivars, avars, qfilters, qorder, qexpr>>

QNext ==
    \/ query
    \/ \E kv \in {<<"id", 1>>, <<"val", IsoText>>} : filter_by(kv[1], kv[2])
    \/ \E condition \in Conds : filter(condition)
    \/ all

SpecQuery == QInit /\ [][QNext]_vars

\* one expression translated and run: the expressions of Conds, searches,
\* and_() groups, and operators that op_map does not list
LikeConds == {Binary("ilike_op", "val", p) : p \in {PatHit, PatMiss}}
AndConds ==
    {And(<<Binary("eq", "id", 1), Binary(op, "val", PyDate)>>) : op \in {"eq", "ge"}}
OddConds ==
    {Binary("is_distinct_from", "id", 1),
     Cond("BinaryExpression", "not_in_op", "id", <<1>>, "clauses", <<>>)}
TranslatorConds == Conds \cup LikeConds \cup AndConds \cup OddConds

TNext ==
    \/ query
    \/ \E kv \in {<<"id", 1>>, <<"val", PyDate>>} : qexpr = NoExpr /\ filter_by(kv[1], kv[2])
    \/ \E condition \in TranslatorConds : qexpr = NoExpr /\ filter(condition)
    \/ all

SpecTranslate == QInit /\ [][TNext]_vars

\* a query built from keyword filters and order_by, then run or counted
OrderCols == {Desc("val"), Desc("id"), Asc("id"), Col("extra_work_description")}
CountAnswers == {"row", "no rows", "statement error", "no binding"}
ONext ==
    \/ query
    \/ \E kv \in {<<"id", 1>>, <<"val", PyDate>>} : filter_by(kv[1], kv[2])
    \/ \E col \in OrderCols : order_by(col)
    \/ all
    \/ \E answer \in CountAnswers : count(answer)

SpecOrder == QInit /\ [][ONext]_vars

\* ------------------------------------------------------- initialization
Goto(p, label) == pc' = [pc EXCEPT ![p] = label]
IFrame == UNCHANGED <<svars, qvars, backend, avars>>

\* a request arrives; the binding is set and the probe is the first await
StartBody(p) ==
    /\ pc[p] = "idle"
    /\ Goto(p, "probe")
    /\ ilast' = IStep(p, "start", "")
    /\ UNCHANGED <<db, runs>>

Start(p) ==
    /\ backend = "d1"
    /\ StartBody(p)
    /\ IFrame

\* SELECT id FROM users WHERE email = ? AND role = 'super_admin'
AdminFound(d) == d.core /\ d.nadmin > 0 /\ d.role = "super_admin"

\* is_d1_initialized() up to its SELECT: False when the row is missing or the
\* statement raises (the store fails, or users does not exist); the cron tick
\* and the POST then run initialize_d1_database
ProbeSelect(p, fails) ==
    /\ pc[p] = "probe"
    /\ IF ~fails /\ AdminFound(db)
       THEN Goto(p, "pragma") /\ ilast' = IStep(p, "select", "found")
       ELSE /\ ilast' = IStep(p, "select", "False")
            /\ IF p = "health" THEN Goto(p, "idle")
               ELSE runs < MaxRuns /\ Goto(p, "drop")
    /\ UNCHANGED <<db, runs>>
    /\ IFrame

\* 'quran' in columns and 'tadabbur' in columns
HasCurrentColumns(d) == d.cards = "new"

\* migrate_daily_cards_schema(): PRAGMA table_info(daily_cards); an exception
\* is printed and the probe returns True
MigratePragma(p, fails) ==
    /\ pc[p] = "pragma"
    /\ IF fails \/ HasCurrentColumns(db)
       THEN Goto(p, "idle") /\ ilast' = IStep(p, "pragma", "True")
       ELSE Goto(p, "mdrop") /\ ilast' = IStep(p, "pragma", "migrate")
    /\ UNCHANGED <<db, runs>>
    /\ IFrame

\* DROP TABLE IF EXISTS daily_cards
MigrateDrop(p, fails) ==
    /\ pc[p] = "mdrop"
    /\ IF fails
       THEN Goto(p, "idle") /\ ilast' = IStep(p, "migrate drop", "True") /\ db' = db
       ELSE /\ Goto(p, "mcreate")
            /\ ilast' = IStep(p, "migrate drop", "")
            /\ db' = [db EXCEPT !.cards = "absent", !.ncards = 0]
    /\ UNCHANGED runs
    /\ IFrame

\* CREATE TABLE IF NOT EXISTS daily_cards (...); the probe returns True
MigrateCreate(p, fails) ==
    /\ pc[p] = "mcreate"
    /\ Goto(p, "idle")
    /\ ilast' = IStep(p, "migrate create", "True")
    /\ db' = IF ~fails /\ db.cards = "absent" THEN [db EXCEPT !.cards = "new"] ELSE db
    /\ UNCHANGED runs
    /\ IFrame

\* initialize_d1_database(): the batch of four DROP TABLE IF EXISTS
DropTables(p) ==
    /\ pc[p] = "drop"
    /\ Goto(p, "create")
    /\ ilast' = IStep(p, "drop", "")
    /\ db' = EmptyDatabase
    /\ UNCHANGED runs
    /\ IFrame

\* the batch of four CREATE TABLE IF NOT EXISTS
CreateTables(p) ==
    /\ pc[p] = "create"
    /\ Goto(p, "index")
    /\ ilast' = IStep(p, "create", "")
    /\ db' = [db EXCEPT !.core = TRUE,
                        !.cards = IF @ = "absent" THEN "new" ELSE @]
    /\ UNCHANGED runs
    /\ IFrame

\* a statement on a table that another request has dropped raises; the
\* routine then reports the error and ends
Failed(p, step) ==
    /\ Goto(p, "idle")
    /\ ilast' = IStep(p, step, "failed")
    /\ UNCHANGED <<db, runs>>

\* the batch of CREATE INDEX IF NOT EXISTS
CreateIndexes(p) ==
    /\ pc[p] = "index"
    /\ IF ~db.core \/ db.cards = "absent" THEN Failed(p, "index")
       ELSE Goto(p, "settings") /\ ilast' = IStep(p, "index", "") /\ UNCHANGED <<db, runs>>
    /\ IFrame

\* INSERT INTO site_settings (enable_email_notifications) VALUES (1)
InsertSettings(p) ==
    /\ pc[p] = "settings"
    /\ IF ~db.core THEN Failed(p, "settings")
       ELSE /\ Goto(p, "admin")
            /\ ilast' = IStep(p, "settings", "")
            /\ db' = [db EXCEPT !.nsettings = @ + 1]
            /\ UNCHANGED runs
    /\ IFrame

MutInsertOrIgnoreAdmin_Insert(d) == [d EXCEPT !.nadmin = @ + 1, !.role = "super_admin"]

\* INSERT OR IGNORE INTO users (...): email is UNIQUE, so the row is left out
\* when an account with that email exists
InsertOrIgnoreAdmin(d) ==
    IF d.nadmin > 0 THEN d ELSE [d EXCEPT !.nadmin = 1, !.role = "super_admin"]

\* the last statement of the routine; report["success"] = True
InsertAdmin(p) ==
    /\ pc[p] = "admin"
    /\ IF ~db.core THEN Failed(p, "admin")
       ELSE /\ Goto(p, "idle")
            /\ ilast' = IStep(p, "initialized", "success")
            /\ db' = InsertOrIgnoreAdmin(db)
            /\ runs' = runs + 1
    /\ IFrame

\* ---- account operations that touch what the probe reads
\* POST /auth/login under the primary administrator's email: promoted when
\* the account is not super_admin. The handler awaits the query, which only
\* the D1 session supports
login ==
    /\ backend = "d1"
    /\ db.core /\ db.nadmin > 0 /\ db.role # "super_admin"
    /\ db' = [db EXCEPT !.role = "super_admin"]
    /\ ilast' = IStep("account", "login", "")
    /\ UNCHANGED <<pc, runs>>
    /\ IFrame

\* POST /participant/card: one more row of daily_cards. The handler calls the
\* session without await, which only the SQLAlchemy session supports; the
\* row is committed before the response is built
submit_card ==
    /\ backend = "conventional"
    /\ db.core /\ db.nadmin > 0 /\ db.cards # "absent"
    /\ db.ncards < MaxCards
    /\ db' = [db EXCEPT !.ncards = @ + 1]
    /\ ilast' = IStep("account", "card", "")
    /\ UNCHANGED <<pc, runs>>
    /\ IFrame

MutInitializeDatabase_AlwaysSeed(d) ==
    [d EXCEPT !.core = TRUE, !.cards = "new", !.nsettings = @ + 1,
              !.nadmin = @ + 1, !.role = "super_admin"]

\* ---- the conventional backend: synchronous, one request at a time
\* initialize_database(): create_all, the additive migrations, settings and
\* administrator created when missing
initialize_database(d) ==
    [d EXCEPT !.core = TRUE,
              !.cards = "new",
              !.nsettings = IF @ = 0 THEN 1 ELSE @,
              !.nadmin = IF @ = 0 THEN 1 ELSE @,
              !.role = IF d.nadmin = 0 THEN "super_admin" ELSE @]

\* POST /system/initialize-database off the Workers runtime
EndpointBody ==
    /\ IF AdminFound(db)
       THEN /\ ilast' = IStep("post", "already_initialized", "True")
            /\ UNCHANGED <<db, runs>>
       ELSE /\ runs < MaxRuns
            /\ db' = initialize_database(db)
            /\ runs' = runs + 1
            /\ ilast' = IStep("post", "initialized", "success")
    /\ UNCHANGED pc

initialize_database_endpoint ==
    /\ backend = "conventional"
    /\ EndpointBody
    /\ IFrame

\* GET /system/health, GET /system/status off the Workers runtime
health_check ==
    /\ backend = "conventional"
    /\ ilast' = IStep("health", "select", IF AdminFound(db) THEN "True" ELSE "False")
    /\ UNCHANGED <<db, pc, runs>>
    /\ IFrame

\* a database never initialized, or one initialized before, by this release
\* or by an earlier one whose daily_cards had other columns; the account
\* under the configured SUPER_ADMIN_EMAIL is the one initialization created,
\* or a registered participant whose email was configured afterwards
InitialDatabases ==
    {EmptyDatabase}
        \cup {Database(TRUE, cards, 1, role, 1, ncards) :
                 cards \in {"old", "new"}, role \in {"super_admin", "participant"},
                 ncards \in 0..MaxCards}

DInit(backends) ==
    /\ storage = [i \in Ids |-> NoRow]
    /\ seq = 0
    /\ heap = [o \in Objs |-> [id |-> NoneId, val |-> Absent]]
    /\ pending_adds = <<>>
    /\ pending_updates = <<>>
    /\ pending_deletes = <<>>
    /\ closed = FALSE
    /\ log = <<>>
    /\ retry = FALSE
    /\ last = Call("init", "ok", NoRet, 0)
    /\ qfilters = <<>>
    /\ qorder = <<>>
    /\ qexpr = NoExpr
    /\ qresult = NoResult
    /\ backend \in backends
    /\ db \in InitialDatabases
    /\ pc = [p \in Procs |-> "idle"]
    /\ runs = IF db = EmptyDatabase THEN 0 ELSE 1
    /\ ilast = IStep("", "", "")
    /\ AIdle

\* the steps of the requests in flight on the Workers runtime
D1Steps ==
    \/ \E p \in Procs, fails \in BOOLEAN : ProbeSelect(p, fails)
    \/ \E p \in Procs, fails \in BOOLEAN : MigratePragma(p, fails)
    \/ \E p \in Procs, fails \in BOOLEAN : MigrateDrop(p, fails)
    \/ \E p \in Procs, fails \in BOOLEAN : MigrateCreate(p, fails)
    \/ \E p \in Procs : DropTables(p)
    \/ \E p \in Procs : CreateTables(p)
    \/ \E p \in Procs : CreateIndexes(p)
    \/ \E p \in Procs : InsertSettings(p)
    \/ \E p \in Procs : InsertAdmin(p)

AccountOps ==
    \/ login
    \/ submit_card

\* requests overlap: each await of one may be followed by a step of another
INext ==
    \/ \E p \in Procs : Start(p)
    \/ D1Steps
    \/ login

SpecInit == DInit({"d1"}) /\ [][INext]_vars

\* initialization attempts only: every request is a cron tick or a POST whose
\* probe returns False, and their steps interleave
\* PUT /api/settings by the administrator: the row is updated, or inserted
\* when the table is empty. The handler and its dependency are synchronous,
\* so on D1 the dependency fails and nothing is written
update_settings ==
    /\ db.core /\ db.nadmin > 0 /\ db.role = "super_admin"
    /\ IF backend = "d1"
       THEN /\ ilast' = IStep("put", "update_settings", "500")
            /\ UNCHANGED db
       ELSE /\ ilast' = IStep("put", "update_settings", "200")
            /\ db' = [db EXCEPT !.nsettings = IF @ = 0 THEN 1 ELSE @]
    /\ UNCHANGED <<pc, runs>>
    /\ IFrame

Attempts == {"cron", "post"}
RNext ==
    \/ \E p \in Attempts : Start(p)
    \/ \E p \in Attempts, fails \in BOOLEAN :
          (fails \/ ~AdminFound(db)) /\ ProbeSelect(p, fails)
    \/ \E p \in Attempts : DropTables(p)
    \/ \E p \in Attempts : CreateTables(p)
    \/ \E p \in Attempts : CreateIndexes(p)
    \/ \E p \in Attempts : InsertSettings(p)
    \/ \E p \in Attempts : InsertAdmin(p)
    \/ update_settings

SpecRace == DInit({"d1"}) /\ [][RNext]_vars

\* requests one after another, on either backend
AllIdle == \A p \in Procs : pc[p] = "idle"
SeqNext ==
    \/ \E p \in Procs : AllIdle /\ Start(p)
    \/ D1Steps
    \/ AllIdle /\ AccountOps
    \/ initialize_database_endpoint
    \/ health_check

SpecSeed == DInit({"d1", "conventional"}) /\ [][SeqNext]_vars

\* ---- environment detection and the session of a request
is_cloudflare_workers(e) == e.workers_var \/ e.pyodide

detect_environment(e) ==
    IF is_cloudflare_workers(e) THEN "cloudflare"
    ELSE IF e.binding THEN "cloudflare"
    ELSE IF e.url = "sqlite" THEN "cloudflare"
    ELSE "server"

\* get_session_local(): None on the Workers runtime, else the sessionmaker
get_session_local(e) == IF is_cloudflare_workers(e) THEN "None" ELSE "sessionmaker"

\* the session get_db() creates before its yield; session_factory() on None
\* raises TypeError
SessionFor(e) ==
    IF e.binding THEN Rq("handler", TRUE, "D1Session", TRUE, "")
    ELSE IF get_session_local(e) = "None" THEN Rq("done", FALSE, "", FALSE, "TypeError")
    ELSE Rq("handler", FALSE, "Session", TRUE, "")

AFrame == UNCHANGED <<svars, qvars, ivars, report, req, uvars>>

\* detect_environment() called in a context
detect(binding) ==
    /\ detected' = Detected(binding, detect_environment(Context(env, binding)))
    /\ UNCHANGED <<env, rq>>
    /\ AFrame

\* get_db() up to its yield, in the context on_fetch prepared for the request
get_db(r, binding) ==
    /\ rq[r].pc = "idle"
    /\ rq' = [rq EXCEPT ![r] = SessionFor(Context(env, binding))]
    /\ UNCHANGED <<env, detected>>
    /\ AFrame

Exits == {"return", "HTTPException", "unhandled"}

\* the route handler runs with the session and ends
handler(r, exit) ==
    /\ rq[r].pc = "handler"
    /\ rq' = [rq EXCEPT ![r].pc = "exit", ![r].exit = exit]
    /\ UNCHANGED <<env, detected>>
    /\ AFrame

MutReleased_OnReturnOnly(exit) == exit = "return"

\* try: yield session / finally: session.close(), on either branch
Released(exit) == TRUE

\* get_db() is resumed, or the handler's exception is thrown into it, and the
\* request ends
get_db_exit(r) ==
    /\ rq[r].pc = "exit"
    /\ rq' = [rq EXCEPT ![r].pc = "done",
                        ![r].open = IF Released(rq[r].exit) THEN FALSE ELSE @]
    /\ UNCHANGED <<env, detected>>
    /\ AFrame

Signals == {Env(w, p, u) : w \in BOOLEAN, p \in BOOLEAN, u \in {"sqlite", "postgresql"}}

EInit ==
    /\ storage = [i \in Ids |-> NoRow]
    /\ seq = 0
    /\ heap = [o \in Objs |-> [id |-> NoneId, val |-> Absent]]
    /\ pending_adds = <<>>
    /\ pending_updates = <<>>
    /\ pending_deletes = <<>>
    /\ closed = FALSE
    /\ log = <<>>
    /\ retry = FALSE
    /\ last = Call("init", "ok", NoRet, 0)
    /\ qfilters = <<>>
    /\ qorder = <<>>
    /\ qexpr = NoExpr
    /\ qresult = NoResult
    /\ backend = "d1"
    /\ db = EmptyDatabase
    /\ pc = [p \in Procs |-> "idle"]
    /\ runs = 0
    /\ ilast = IStep("", "", "")
    /\ report = NoReport
    /\ req = NoReq
    /\ env \in Signals
    /\ detected = Detected(FALSE, "")
    /\ rq = [r \in Requests |-> NoRq]
    /\ UIdle

ENext ==
    \/ \E binding \in BOOLEAN : detect(binding)
    \/ \E r \in Requests, binding \in BOOLEAN : get_db(r, binding)
    \/ \E r \in Requests, exit \in Exits : handler(r, exit)
    \/ \E r \in Requests : get_db_exit(r)

SpecEnv == EInit /\ [][ENext]_vars

\* ---- who may start an initialization over HTTP
Secrets == {"None", "", "s3cret"}             \* os.getenv('INIT_SECRET') or settings.INIT_SECRET
Headers == {"None", "", "s3cret", "guess"}    \* X-Init-Secret
\* no Authorization header; a token whose signature or expiry fails; a valid
\* token of the primary administrator's account; a valid token of an account
\* that is no longer stored
Creds == {"none", "bad", "admin", "ghost"}

MutHasValidToken_NoTruthTest(secret, header) == header = secret

\* init_secret and x_init_secret == init_secret
HasValidToken(secret, header) == secret \notin {"None", ""} /\ header = secret

\* lines 93-142: "pass" or the status of the HTTPException raised. The 403 of
\* the role test is raised inside the try block and caught by except Exception,
\* which raises 401; off the Workers runtime db.get is not awaitable, and the
\* TypeError of the await is caught the same way
Authorize(secret, header, cred, d, be) ==
    IF HasValidToken(secret, header) THEN "pass"
    ELSE IF cred \in {"none", "bad"} THEN "401"
    ELSE IF be # "d1" THEN "401"
    ELSE IF ~d.core THEN "401"
    ELSE IF cred = "ghost" \/ d.nadmin = 0 THEN "401"
    ELSE IF d.role # "super_admin" THEN "401"
    ELSE "pass"

\* POST /system/initialize-database from its first line: the request is
\* rejected, or goes on to the probe (Workers runtime) or to the synchronous
\* initialization
post_initialize_database(secret, header, cred) ==
    /\ pc["post"] = "idle"
    /\ \E verdict \in {Authorize(secret, header, cred, db, backend)} :
          /\ req' = Req(secret, header, cred, verdict)
          /\ IF verdict # "pass"
             THEN /\ ilast' = IStep("post", "rejected", verdict)
                  /\ UNCHANGED <<db, pc, runs>>
             ELSE IF backend = "d1" THEN StartBody("post") ELSE EndpointBody
    /\ UNCHANGED <<svars, qvars, backend, report, env, detected, rq, uvars>>

ANext ==
    \/ \E secret \in Secrets, header \in Headers, cred \in Creds :
          post_initialize_database(secret, header, cred)
    \/ D1Steps
    \/ AllIdle /\ AccountOps

SpecAuth == DInit({"d1", "conventional"}) /\ [][ANext]_vars

\* ---- one initialization call from its first line to its return
\* the statements of initialize_d1_database() in order; the step named failAt
\* raises ("binding": get_d1_binding() gives None), "none": nothing fails
D1Order == <<"binding", "drop", "create", "index", "settings", "admin">>
\* initialize_database(): "engine" is detect_database_type(), get_engine() and
\* get_session_local(), which run before the try block is entered
ConvOrder == <<"engine", "create_all", "migrate", "settings", "backfill", "admin">>
Pos(order, step) == CHOOSE i \in 1..Len(order) : order[i] = step
Done(order, step, failAt) == failAt = "none" \/ Pos(order, step) < Pos(order, failAt)

\* what one completed step leaves in the database
StepEffect(step, d) ==
    CASE step = "drop" -> EmptyDatabase
      [] step \in {"create", "create_all"} ->
            [d EXCEPT !.core = TRUE, !.cards = IF @ = "absent" THEN "new" ELSE @]
      [] step = "migrate" -> [d EXCEPT !.cards = "new"]
      [] step = "settings" /\ backend = "d1" -> [d EXCEPT !.nsettings = @ + 1]
      [] step = "settings" /\ backend # "d1" ->
            [d EXCEPT !.nsettings = IF @ = 0 THEN 1 ELSE @]
      [] step = "admin" /\ backend = "d1" -> InsertOrIgnoreAdmin(d)
      [] step = "admin" /\ backend # "d1" ->
            IF d.nadmin = 0 THEN [d EXCEPT !.nadmin = 1, !.role = "super_admin"] ELSE d
      [] OTHER -> d

RECURSIVE RunSteps(_, _, _)
RunSteps(order, d, failAt) ==
    IF order = <<>> \/ Head(order) = failAt THEN d
    ELSE RunSteps(Tail(order), StepEffect(Head(order), d), failAt)

\* initialize_d1_database(): every statement is inside the try block, and a
\* missing binding returns the report with one error
initialize_d1_database(failAt) ==
    /\ backend = "d1"
    /\ AllIdle
    /\ failAt = "none" => runs < MaxRuns
    /\ db' = RunSteps(D1Order, db, failAt)
    /\ runs' = IF failAt = "none" THEN runs + 1 ELSE runs
    /\ report' = Report("initialize_d1_database", "returned", failAt = "none",
                        Done(D1Order, "create", failAt),
                        Done(D1Order, "settings", failAt),
                        Done(D1Order, "admin", failAt),
                        IF failAt = "none" THEN 0 ELSE 1)
    /\ ilast' = IStep("initialize_d1_database", failAt,
                      IF failAt = "none" THEN "success" ELSE "failed")
    /\ UNCHANGED <<svars, qvars, backend, pc, req, env, detected, rq, uvars>>

\* initialize_database(): an exception of the three calls before the try block
\* leaves the function; one inside it is appended to report["errors"]
initialize_database_call(failAt) ==
    /\ backend = "conventional"
    /\ failAt = "none" => runs < MaxRuns
    /\ db' = RunSteps(ConvOrder, db, failAt)
    /\ runs' = IF failAt = "none" THEN runs + 1 ELSE runs
    /\ report' =
          IF failAt = "engine"
          THEN Report("initialize_database", "raised", FALSE, FALSE, FALSE, FALSE, 0)
          ELSE Report("initialize_database", "returned", failAt = "none",
                      Done(ConvOrder, "create_all", failAt),
                      Done(ConvOrder, "settings", failAt) /\ db.nsettings = 0,
                      Done(ConvOrder, "admin", failAt) /\ db.nadmin = 0,
                      IF failAt = "none" THEN 0 ELSE 1)
    /\ ilast' = IStep("initialize_database", failAt,
                      IF failAt = "none" THEN "success" ELSE "failed")
    /\ UNCHANGED <<svars, qvars, backend, pc, req, env, detected, rq, uvars>>

PNext ==
    \/ \E failAt \in Range(D1Order) \cup {"none"} : initialize_d1_database(failAt)
    \/ \E failAt \in Range(ConvOrder) \cup {"none"} : initialize_database_call(failAt)
    \/ AccountOps

SpecReport == DInit({"d1", "conventional"}) /\ [][PNext]_vars

\* ------------------------------------ the account, group and card routes
\* the session, the query builder and the initialization routines at rest
Quiet ==
    /\ storage = [i \in Ids |-> NoRow]
    /\ seq = 0
    /\ heap = [o \in Objs |-> [id |-> NoneId, val |-> Absent]]
    /\ pending_adds = <<>>
    /\ pending_updates = <<>>
    /\ pending_deletes = <<>>
    /\ closed = FALSE
    /\ log = <<>>
    /\ retry = FALSE
    /\ last = Call("init", "ok", NoRet, 0)
    /\ qfilters = <<>>
    /\ qorder = <<>>
    /\ qexpr = NoExpr
    /\ qresult = NoResult
    /\ db = EmptyDatabase
    /\ pc = [p \in Procs |-> "idle"]
    /\ runs = 0
    /\ ilast = IStep("", "", "")
    /\ report = NoReport
    /\ req = NoReq
    /\ env = Env(FALSE, FALSE, "postgresql")
    /\ detected = Detected(FALSE, "")
    /\ rq = [r \in Requests |-> NoRq]
    /\ scored = NoScored
    /\ sent = NoSent
UFrame ==
    UNCHANGED <<svars, qvars, ivars, report, req, env, detected, rq, scored, sent>>
Present(us) == {i \in UserIds : us[i] # NoUser}
\* the emails of the accounts a table starts with, by internal id
MailOf ==
    << <<"a">>, <<"b">>, <<"a", "a">>, <<"a", "b">>, <<"b", "a">>, <<"b", "b">> >>
RECURSIVE Ascending(_)
Ascending(S) ==
    IF S = {} THEN <<>>
    ELSE LET m == CHOOSE x \in S : \A y \in S : x <= y
         IN  <<m>> \o Ascending(S \ {m})

\* ---- the membership-number backfill
\* db.query(User).filter(User.member_id.is_(None)).order_by(User.id).all()
users_without(us) == Ascending({i \in Present(us) : us[i].member_id = 0})
\* db.query(func.max(User.member_id)).scalar(): None, here 0, when no account
\* has a number
max_mid(us) ==
    LET S == {us[i].member_id : i \in Present(us)} \ {0}
    IN  IF S = {} THEN 0 ELSE CHOOSE x \in S : \A y \in S : y <= x
MutNextId_From1000(m) == 1000
\* next_id = (max_mid + 1) if max_mid else 1000
next_id(m) == IF m # 0 THEN m + 1 ELSE 1000
\* for u in users_without: u.member_id = next_id; next_id += 1
RECURSIVE Assign(_, _, _)
Assign(us, ids, n) ==
    IF ids = <<>> THEN us
    ELSE Assign([us EXCEPT ![Head(ids)].member_id = n], Tail(ids), n + 1)
Backfill(us) ==
    IF users_without(us) = <<>> THEN us
    ELSE Assign(us, users_without(us), next_id(max_mid(us)))
\* step 4 of initialize_database and of on_startup, with its commit
backfill ==
    /\ backend = "conventional"
    /\ users' = Backfill(users)
    /\ resp' = Resp("backfill", <<>>, 0, FALSE, Len(users_without(users)))
    /\ UNCHANGED <<halqas, daily_cards, tx>>
    /\ UFrame
\* the users tables a release without the member_id column left behind, after
\* the column was added and some accounts were numbered: internal ids with
\* gaps, numbers distinct where present
IssuedNumbers == {1000, 1001, 1002}
LegacyUsers ==
    {us \in [UserIds -> {NoUser} \cup
                        {User(e, n, "participant", "active", "bcrypt") :
                           e \in {MailOf[i] : i \in UserIds},
                           n \in {0} \cup IssuedNumbers}] :
        /\ \A i \in Present(us) : us[i].email = MailOf[i]
        /\ \A i, j \in Present(us) :
              i # j /\ us[i].member_id # 0 => us[i].member_id # us[j].member_id}
BInit ==
    /\ Quiet
    /\ backend = "conventional"
    /\ users \in LegacyUsers
    /\ halqas = [h \in HalqaIds |-> NoHalqa]
    /\ daily_cards = {}
    /\ tx = [r \in Requests |-> NoTx]
    /\ resp = NoResp
BNext == backfill
SpecBackfill == BInit /\ [][BNext]_vars

\* ---- registration and import
\* str.lower() and str.strip() on strings over the letters a, A, b and space
LowerChar(c) == IF c = "A" THEN "a" ELSE IF c = "B" THEN "b" ELSE c
MutLower_Identity(str) == str
lower(str) == [i \in 1..Len(str) |-> LowerChar(str[i])]
RECURSIVE lstrip(_)
lstrip(str) ==
    IF str # <<>> /\ Head(str) = " " THEN lstrip(Tail(str)) ELSE str
RECURSIVE rstrip(_)
rstrip(str) ==
    IF str # <<>> /\ str[Len(str)] = " "
    THEN rstrip(SubSeq(str, 1, Len(str) - 1)) ELSE str
strip(str) == rstrip(lstrip(str))
\* EMAIL_PATTERN on these strings: no space inside, not empty
EMAIL_PATTERN(str) == str # <<>> /\ \A i \in 1..Len(str) : str[i] # " "
\* validate_email: the normalised address, or ValueError
ValueError == <<"ValueError">>
validate_email(email) ==
    IF email = <<>> THEN ValueError
    ELSE IF ~EMAIL_PATTERN(lower(strip(email))) THEN ValueError
    ELSE lower(strip(email))
\* the addresses a client may send
RawEmails ==
    {<<"a">>, <<"A">>, <<"b">>, <<"A", " ">>, <<" ", "b">>, <<"a", "b">>,
     <<"a", "B">>, <<"a", " ", "b">>, <<" ">>}
\* db.query(User).filter_by(email=e).first()
ByEmail(us, e) == {i \in Present(us) : us[i].email = e}
\* the internal id the store gives the next row (AUTOINCREMENT)
NextUserId(us) ==
    IF Present(us) = {} THEN 1
    ELSE (CHOOSE x \in Present(us) : \A y \in Present(us) : y <= x) + 1
\* POST /auth/register. The schema validates the address (422); the passwords
\* must match (400); the handler awaits every query, which the SQLAlchemy
\* session does not support (TypeError, 500)
register(raw, confirmed) ==
    /\ LET email == validate_email(raw) IN
       IF email = ValueError
       THEN /\ resp' = Resp("register", raw, 422, FALSE, 0)
            /\ UNCHANGED users
       ELSE IF ~confirmed
       THEN /\ resp' = Resp("register", raw, 400, FALSE, 0)
            /\ UNCHANGED users
       ELSE IF backend = "conventional"
       THEN /\ resp' = Resp("register", raw, 500, FALSE, 0)
            /\ UNCHANGED users
       ELSE IF ByEmail(users, lower(strip(email))) # {}
       THEN /\ resp' = Resp("register", raw, 400, FALSE,
                            CHOOSE i \in ByEmail(users, lower(strip(email))) : TRUE)
            /\ UNCHANGED users
       ELSE /\ NextUserId(users) <= MaxUsers
            /\ users' = [users EXCEPT ![NextUserId(users)] =
                           User(lower(strip(email)), next_id(max_mid(users)),
                                "participant", "pending", "bcrypt")]
            /\ resp' = Resp("register", raw, 200, FALSE, NextUserId(users))
    /\ UNCHANGED <<halqas, daily_cards, tx>>
    /\ UFrame
\* POST /admin/import with the token of a super_admin. On D1 the dependency
\* get_current_user hands RoleChecker a coroutine (AttributeError, 500); on
\* the SQLAlchemy session the handler's first await raises (TypeError, 500)
import_users(rows) ==
    /\ resp' = Resp("import", rows[1], 500, FALSE, 0)
    /\ UNCHANGED <<users, halqas, daily_cards, tx>>
    /\ UFrame
\* an empty users table, or one holding the account initialization created
AdminMail == MailOf[1]
FreshUsers ==
    {[i \in UserIds |-> NoUser],
     [i \in UserIds |-> IF i = 1
                          THEN User(AdminMail, 0, "super_admin", "active", "bcrypt")
                          ELSE NoUser]}
RInit ==
    /\ Quiet
    /\ backend \in {"d1", "conventional"}
    /\ users \in FreshUsers
    /\ halqas = [h \in HalqaIds |-> NoHalqa]
    /\ daily_cards = {}
    /\ tx = [r \in Requests |-> NoTx]
    /\ resp = NoResp
AccNext ==
    \/ \E raw \in RawEmails, confirmed \in BOOLEAN : register(raw, confirmed)
    \/ \E raw \in RawEmails : import_users(<<raw>>)
SpecAccounts == RInit /\ [][AccNext]_vars

\* ---- POST /auth/register between its awaits. The handler reads the account
\* with the email, then the account with the highest member_id, and commits
\* the new account last; requests of one worker interleave at every await.
\* the UNIQUE constraint on users.member_id (NULL is never a duplicate)
unique_member_id(us, member_id) ==
    member_id # 0 /\ \E i \in Present(us) : us[i].member_id = member_id
\* the UNIQUE constraint on users.email
unique_email(us, email) == ByEmail(us, email) # {}
\* the request up to "existing = await db.query(User).filter_by(email=...)"
register_check(r, raw, confirmed) ==
    /\ tx[r].at = "idle"
    /\ LET email == validate_email(raw) IN
       IF email = ValueError
       THEN /\ resp' = Resp("register", raw, 422, FALSE, 0) /\ UNCHANGED tx
       ELSE IF ~confirmed
       THEN /\ resp' = Resp("register", raw, 400, FALSE, 0) /\ UNCHANGED tx
       ELSE IF backend = "conventional"
       THEN /\ resp' = [Resp("register", raw, 500, FALSE, 0)
                           EXCEPT !.error = "TypeError"]
            /\ UNCHANGED tx
       ELSE IF ByEmail(users, lower(strip(email))) # {}
       THEN /\ resp' = Resp("register", raw, 400, FALSE,
                            CHOOSE i \in ByEmail(users, lower(strip(email))) : TRUE)
            /\ UNCHANGED tx
       ELSE /\ tx' = [tx EXCEPT ![r] = [Tx("register", 0, 0, 0, "checked")
                                           EXCEPT !.email = lower(strip(email))]]
            /\ UNCHANGED resp
    /\ UNCHANGED <<users, halqas, daily_cards>>
    /\ UFrame
\* "last_user = await db.query(User).order_by(User.member_id.desc()).first()"
\* and the number computed from it
register_number(r) ==
    /\ tx[r].op = "register" /\ tx[r].at = "checked"
    /\ tx' = [tx EXCEPT ![r].val = next_id(max_mid(users)), ![r].at = "numbered"]
    /\ UNCHANGED <<users, halqas, daily_cards, resp>>
    /\ UFrame
\* db.add(user); await db.commit(): the INSERT, which the store rejects when
\* the email or the number is taken; the handler does not catch it (500)
register_commit(r) ==
    /\ tx[r].op = "register" /\ tx[r].at = "numbered"
    /\ LET t == tx[r] IN
       IF unique_email(users, t.email) \/ unique_member_id(users, t.val)
       THEN /\ resp' = [Resp("register", t.email, 500, FALSE, 0)
                           EXCEPT !.error = "IntegrityError"]
            /\ UNCHANGED users
       ELSE /\ NextUserId(users) <= MaxUsers
            /\ users' = [users EXCEPT ![NextUserId(users)] =
                           User(t.email, t.val, "participant", "pending", "bcrypt")]
            /\ resp' = Resp("register", t.email, 200, FALSE, NextUserId(users))
    /\ tx' = [tx EXCEPT ![r] = NoTx]
    /\ UNCHANGED <<halqas, daily_cards>>
    /\ UFrame
RegNext ==
    \/ \E r \in Requests, raw \in RawEmails, confirmed \in BOOLEAN :
          register_check(r, raw, confirmed)
    \/ \E r \in Requests : register_number(r)
    \/ \E r \in Requests : register_commit(r)
    \/ \E raw \in RawEmails : import_users(<<raw>>)
SpecRegister == RInit /\ [][RegNext]_vars

\* ---- the accounts over one initialization that reports success
\* step 5 of initialize_database: the administrator is added, without a
\* member_id, when no account has the configured email
CreateAdmin(us) ==
    IF ByEmail(us, lower(AdminMail)) # {} THEN us
    ELSE [us EXCEPT ![NextUserId(us)] =
            User(lower(AdminMail), 0, "super_admin", "active", "bcrypt")]
\* the users table initialize_d1_database leaves: dropped, created again, and
\* the administrator inserted with nine columns, member_id not among them
D1Seed ==
    [i \in UserIds |->
        IF i = 1 THEN User(lower(AdminMail), 0, "super_admin", "active", "pbkdf2_sha256")
        ELSE NoUser]
\* initialize_database on the SQLAlchemy backend (steps 4 and 5, each with its
\* commit), initialize_d1_database on D1
initialize_accounts ==
    /\ IF backend = "conventional"
       THEN /\ ByEmail(users, lower(AdminMail)) = {} => NextUserId(users) <= MaxUsers
            /\ users' = CreateAdmin(Backfill(users))
            /\ UNCHANGED <<halqas, daily_cards>>
       ELSE /\ users' = D1Seed
            /\ halqas' = [h \in HalqaIds |-> NoHalqa]
            /\ daily_cards' = {}
    /\ resp' = Resp("initialize", <<>>, 0, FALSE, Len(users_without(users)))
    /\ UNCHANGED tx
    /\ UFrame
NumInit ==
    /\ Quiet
    /\ backend \in {"d1", "conventional"}
    /\ users \in LegacyUsers
    /\ halqas = [h \in HalqaIds |-> NoHalqa]
    /\ daily_cards = {}
    /\ tx = [r \in Requests |-> NoTx]
    /\ resp = NoResp
NumNext == initialize_accounts
SpecNumbered == NumInit /\ [][NumNext]_vars

\* ---- POST /admin/user/{user_id}/set-role
\* require_admin = RoleChecker("super_admin") over get_current_user
require_admin(us, actor) ==
    IF actor \notin Present(us) THEN 404
    ELSE IF us[actor].status # "active" /\ us[actor].role # "super_admin" THEN 403
    ELSE IF us[actor].role \notin {"super_admin"} THEN 403
    ELSE 0
\* On D1 get_current_user returns the coroutine of D1Session.get and
\* RoleChecker reads its .status (AttributeError, 500). On the SQLAlchemy
\* session the dependency answers, and the handler's first statement,
\* "target = await db.get(User, user_id)", awaits a User or None
\* (TypeError, 500): the checks and the write after it are never reached
set_user_role(actor, user_id, role) ==
    /\ LET email == IF actor \in Present(users) THEN users[actor].email ELSE <<>> IN
       IF backend = "d1"
       THEN resp' = [Resp("set_user_role", email, 500, FALSE, user_id)
                        EXCEPT !.error = "AttributeError"]
       ELSE IF require_admin(users, actor) # 0
       THEN resp' = Resp("set_user_role", email, require_admin(users, actor),
                         FALSE, user_id)
       ELSE resp' = [Resp("set_user_role", email, 500, FALSE, user_id)
                        EXCEPT !.error = "TypeError"]
    /\ UNCHANGED <<users, halqas, daily_cards, tx>>
    /\ UFrame
RoleNames == {"participant", "supervisor", "super_admin", "admin"}
\* the primary administrator, an account that may hold super_admin from the
\* time its email was the configured one, and one more account
RoleUsers ==
    {[i \in UserIds |-> IF i = 1 THEN User(lower(AdminMail), 0, "super_admin",
                                           "active", "bcrypt")
                        ELSE IF i = 2 THEN second
                        ELSE IF i = 3 THEN third ELSE NoUser] :
        second \in {User(MailOf[2], 1000, ro, st, "bcrypt") :
                      ro \in {"participant", "supervisor", "super_admin"},
                      st \in {"active", "pending"}},
        third \in {NoUser} \cup {User(MailOf[3], 1001, ro, "active", "bcrypt") :
                                   ro \in {"participant", "super_admin"}}}
RoleInit ==
    /\ Quiet
    /\ backend \in {"d1", "conventional"}
    /\ users \in RoleUsers
    /\ halqas = [h \in HalqaIds |-> NoHalqa]
    /\ daily_cards = {}
    /\ tx = [r \in Requests |-> NoTx]
    /\ resp = NoResp
RoleNext ==
    \E actor \in UserIds, user_id \in UserIds, role \in RoleNames :
        set_user_role(actor, user_id, role)
SpecRoles == RoleInit /\ [][RoleNext]_vars

\* ---- daily cards
\* dates a client may send: 0 lies outside the programme or in the future,
\* 1 is a day of the programme
CardDates == {0, 1}
InProgramme(date) == date # 0
Scores == {1, 2}
\* db.query(DailyCard).filter_by(user_id=u, date=d).first()
CardOf(rows, user_id, date) ==
    {c \in rows : c.user_id = user_id /\ c.date = date}
MutUniqueUserDate_NotEnforced(rows, user_id, date) == FALSE
\* UniqueConstraint("user_id", "date"): the store refuses the insert
unique_user_date(rows, user_id, date) == CardOf(rows, user_id, date) # {}
\* get_active_user / RoleChecker on the SQLAlchemy session: 0 when the account
\* passes, the status of the HTTPException otherwise
get_active_user(us, actor) ==
    IF actor \notin Present(us) THEN 404
    ELSE IF us[actor].status # "active" THEN 403
    ELSE 0
require_supervisor(us, actor) ==
    IF actor \notin Present(us) THEN 404
    ELSE IF us[actor].status # "active" /\ us[actor].role # "super_admin" THEN 403
    ELSE IF us[actor].role \notin {"supervisor", "super_admin"} THEN 403
    ELSE 0
\* _verify_member_access: the member exists; a supervisor needs the member in
\* the group it supervises
verify_member_access(us, hs, actor, member_id) ==
    IF member_id \notin Present(us) THEN 404
    ELSE IF us[actor].role = "super_admin" THEN 0
    ELSE 403
Answered(r, op, status, user_id) ==
    /\ resp' = Resp(op, <<>>, status, FALSE, user_id)
    /\ tx' = [tx EXCEPT ![r] = NoTx]
\* a request that ended in an exception no handler caught
Raised(r, op, error, user_id) ==
    /\ resp' = [Resp(op, <<>>, 500, FALSE, user_id) EXCEPT !.error = error]
    /\ tx' = [tx EXCEPT ![r] = NoTx]
\* POST /api/participant/card up to its existence check. On D1 the dependency
\* hands get_active_user a coroutine (AttributeError, 500)
save_card_check(r, actor, date, val) ==
    /\ tx[r].at = "idle"
    /\ IF backend = "d1" THEN Answered(r, "save_card", 500, actor)
       ELSE IF get_active_user(users, actor) # 0
       THEN Answered(r, "save_card", get_active_user(users, actor), actor)
       ELSE IF ~InProgramme(date) THEN Answered(r, "save_card", 400, actor)
       ELSE IF CardOf(daily_cards, actor, date) # {}
       THEN Answered(r, "save_card", 400, actor)
       ELSE /\ tx' = [tx EXCEPT ![r] = Tx("save_card", actor, date, val, "checked")]
            /\ UNCHANGED resp
    /\ UNCHANGED <<users, halqas, daily_cards>>
    /\ UFrame
\* PUT /api/supervisor/member/{member_id}/card/{card_date} up to its lookup
update_member_card_check(r, actor, member_id, date, val) ==
    /\ tx[r].at = "idle"
    /\ IF backend = "d1" THEN Answered(r, "update_member_card", 500, member_id)
       ELSE IF require_supervisor(users, actor) # 0
       THEN Answered(r, "update_member_card", require_supervisor(users, actor),
                     member_id)
       ELSE IF verify_member_access(users, halqas, actor, member_id) # 0
       THEN Answered(r, "update_member_card",
                     verify_member_access(users, halqas, actor, member_id),
                     member_id)
       ELSE IF ~InProgramme(date)
       THEN Answered(r, "update_member_card", 400, member_id)
       ELSE /\ tx' = [tx EXCEPT ![r] =
                        Tx("update_member_card", member_id, date, val,
                           IF CardOf(daily_cards, member_id, date) # {}
                           THEN "found" ELSE "checked")]
            /\ UNCHANGED resp
    /\ UNCHANGED <<users, halqas, daily_cards>>
    /\ UFrame
\* db.commit() of either handler and what follows it: the INSERT of the card
\* it added, or the UPDATE of the card it found. An IntegrityError is not
\* caught (500) and the session closes without a commit. After a commit that
\* succeeded, card_to_response reads card.tadabbur, which the DailyCard model
\* does not have: AttributeError (500), with the card stored
card_commit(r) ==
    /\ tx[r].at \in {"checked", "found"}
    /\ LET t == tx[r] IN
       IF t.at = "found"
       THEN /\ daily_cards' =
                 (daily_cards \ CardOf(daily_cards, t.user_id, t.date))
                     \cup {DailyCard(t.user_id, t.date, t.val)}
            /\ Raised(r, t.op, "AttributeError", t.user_id)
       ELSE IF unique_user_date(daily_cards, t.user_id, t.date)
       THEN /\ UNCHANGED daily_cards
            /\ Raised(r, t.op, "IntegrityError", t.user_id)
       ELSE /\ daily_cards' = daily_cards \cup {DailyCard(t.user_id, t.date, t.val)}
            /\ Raised(r, t.op, "AttributeError", t.user_id)
    /\ UNCHANGED <<users, halqas>>
    /\ UFrame
\* the accounts behind the card routes: the administrator and a participant
CardUsers ==
    [i \in UserIds |->
        IF i = 1 THEN User(AdminMail, 0, "super_admin", "active", "bcrypt")
        ELSE IF i = 2 THEN User(MailOf[2], 1000, "participant", "active", "bcrypt")
        ELSE NoUser]
CInit ==
    /\ Quiet
    /\ backend \in {"d1", "conventional"}
    /\ users = CardUsers
    /\ halqas = [h \in HalqaIds |-> NoHalqa]
    /\ daily_cards = {}
    /\ tx = [r \in Requests |-> NoTx]
    /\ resp = NoResp
CNext ==
    \/ \E r \in Requests, actor \in {1, 2}, date \in CardDates, val \in Scores :
          save_card_check(r, actor, date, val)
    \/ \E r \in Requests, actor \in {1, 2}, member_id \in {1, 2, 3},
          date \in CardDates, val \in Scores :
          update_member_card_check(r, actor, member_id, date, val)
    \/ \E r \in Requests : card_commit(r)
SpecCards == CInit /\ [][CNext]_vars

\* ---- login
LoginResp(email, password, status, token, user_id) ==
    [Resp("login", email, status, token, user_id) EXCEPT !.password = password]
\* User.check_password is passlib's bcrypt.verify: it answers for a bcrypt
\* hash and raises ValueError for a hash of another scheme, such as the
\* pbkdf2_sha256 one initialize_d1_database stores
check_password(user, password) ==
    IF user.hash # "bcrypt" THEN "ValueError"
    ELSE IF password = "ok" THEN "True" ELSE "False"
\* user.role = "super_admin"; user.status = "active"
Promote(user) == [user EXCEPT !.role = "super_admin", !.status = "active"]
\* POST /auth/login. The handler awaits its query, which the SQLAlchemy
\* session does not support; every exception but HTTPException becomes 500
login_as(raw, password) ==
    /\ LET email == validate_email(raw) IN
       IF email = ValueError
       THEN resp' = LoginResp(raw, password, 422, FALSE, 0) /\ UNCHANGED users
       ELSE IF backend = "conventional"
       THEN resp' = LoginResp(raw, password, 500, FALSE, 0) /\ UNCHANGED users
       ELSE IF ByEmail(users, lower(strip(email))) = {}
       THEN resp' = LoginResp(raw, password, 401, FALSE, 0) /\ UNCHANGED users
       ELSE LET i == CHOOSE x \in ByEmail(users, lower(strip(email))) : TRUE
                is_primary_admin == lower(strip(email)) = lower(AdminMail)
                after == IF is_primary_admin
                            /\ (users[i].role # "super_admin"
                                  \/ users[i].status # "active")
                         THEN Promote(users[i]) ELSE users[i]
            IN  IF check_password(users[i], password) = "ValueError"
                THEN resp' = LoginResp(raw, password, 500, FALSE, i)
                       /\ UNCHANGED users
                ELSE IF check_password(users[i], password) = "False"
                THEN resp' = LoginResp(raw, password, 401, FALSE, i)
                       /\ UNCHANGED users
                ELSE /\ users' = [users EXCEPT ![i] = after]
                     /\ resp' = IF after.status \in {"pending", "rejected", "withdrawn"}
                                THEN LoginResp(raw, password, 403, FALSE, i)
                                ELSE LoginResp(raw, password, 200, TRUE, i)
    /\ UNCHANGED <<halqas, daily_cards, tx>>
    /\ UFrame
\* the account under the configured administrator email: the one
\* initialization created (its hash from utils.password_hash on D1, from
\* passlib on a server), the same after a password reset, or a registered
\* account whose email was configured later; and one more participant
Statuses == {"pending", "active", "rejected", "withdrawn"}
LoginUsers(be) ==
    {[i \in UserIds |-> IF i = 1 THEN admin ELSE IF i = 2 THEN other ELSE NoUser] :
        admin \in {User(AdminMail, 0, "super_admin", "active",
                        IF be = "d1" THEN "pbkdf2_sha256" ELSE "bcrypt"),
                   User(AdminMail, 0, "super_admin", "active", "bcrypt")}
                    \cup {User(AdminMail, 1000, "participant", st, "bcrypt") :
                            st \in Statuses},
        other \in {NoUser} \cup {User(MailOf[2], 1001, "participant", st, "bcrypt") :
                                   st \in {"pending", "active"}}}
LInit ==
    /\ Quiet
    /\ backend \in {"d1", "conventional"}
    /\ users \in LoginUsers(backend)
    /\ halqas = [h \in HalqaIds |-> NoHalqa]
    /\ daily_cards = {}
    /\ tx = [r \in Requests |-> NoTx]
    /\ resp = NoResp
LNext == \E raw \in RawEmails, password \in {"ok", "wrong"} : login_as(raw, password)
SpecLogin == LInit /\ [][LNext]_vars

\* ---- the derived values of a daily card
\* DailyCard.SCORE_FIELDS
SCORE_FIELDS ==
    <<"quran", "duas", "taraweeh", "tahajjud", "duha", "rawatib", "main_lesson",
      "required_lesson", "enrichment_lesson", "charity_worship", "extra_work">>
\* the bounded fields of DailyCardCreate
DailyCardCreate ==
    {"quran", "tadabbur", "duas", "taraweeh", "tahajjud", "duha", "rawatib",
     "main_lesson", "enrichment_lesson", "charity_worship", "extra_work"}
\* the REAL columns of daily_cards in the serverless DDL
DDLScoreColumns ==
    {"quran", "tadabbur", "duas", "taraweeh", "tahajjud", "duha", "rawatib",
     "main_lesson", "enrichment_lesson", "charity_worship", "extra_work"}
\* getattr(obj, field, 0) or 0
Getattr(obj, field) == IF field \in DOMAIN obj THEN obj[field] ELSE 0
RECURSIVE SumFields(_, _)
SumFields(card, fields) ==
    IF fields = <<>> THEN 0
    ELSE Getattr(card, Head(fields)) + SumFields(card, Tail(fields))
total_score(card) == SumFields(card, SCORE_FIELDS)
max_score == Len(SCORE_FIELDS) * 10
\* round(x, 1) of n / d, in tenths
RoundTenths(n, d) == (20 * n + d) \div (2 * d)
percentage(card) ==
    IF max_score = 0 THEN 0 ELSE RoundTenths(total_score(card) * 100, max_score)
\* the fields a client varies and the values it sends for them
VariedFields == {"quran", "tadabbur", "duas", "extra_work"}
SentScores == {0, 3, 10}
CardRequests ==
    {[f \in DailyCardCreate |-> IF f \in VariedFields THEN v[f] ELSE 0] :
        v \in [VariedFields -> SentScores]}
\* the card save_card and update_member_card store for a request: every
\* name of SCORE_FIELDS set from the request, 0 where the request has none;
\* the tadabbur column keeps its default
StoredFor(data) ==
    [f \in {SCORE_FIELDS[k] : k \in 1..Len(SCORE_FIELDS)} \cup {"tadabbur"} |->
        IF f = "tadabbur" THEN 0 ELSE Getattr(data, f)]
\* the rows a daily_cards table may hold: on D1 any row of the DDL's columns,
\* on a server the rows the handlers stored
CardRows(be) ==
    IF be = "d1"
    THEN {[f \in DDLScoreColumns |-> IF f \in VariedFields THEN v[f] ELSE 0] :
             v \in [VariedFields -> SentScores]}
    ELSE {StoredFor(data) : data \in CardRequests}
\* total_score, max_score and percentage read of one stored card
score_card(card) ==
    /\ scored' = Scored(card, total_score(card), max_score, percentage(card))
    /\ UNCHANGED <<svars, qvars, ivars, report, req, env, detected, rq, users,
                   halqas, daily_cards, tx, resp, sent>>
ScInit ==
    /\ Quiet
    /\ backend \in {"d1", "conventional"}
    /\ users = CardUsers
    /\ halqas = [h \in HalqaIds |-> NoHalqa]
    /\ daily_cards = {}
    /\ tx = [r \in Requests |-> NoTx]
    /\ resp = NoResp
ScNext == \E card \in CardRows(backend) : score_card(card)
SpecScore == ScInit /\ [][ScNext]_vars

\* ---- the statements D1Session builds from the entities of the handlers
\* the columns of each table in the DDL of initialize_d1_database
DDLColumns(table) ==
    CASE table = "users" ->
           {"id", "full_name", "email", "password_hash", "role", "status", "phone",
            "member_id", "supervisor_id", "halqa_id", "gender", "age", "country",
            "referral_source", "rejection_note", "created_at", "updated_at"}
      [] table = "halqas" ->
           {"id", "name", "supervisor_id", "created_at", "updated_at"}
      [] table = "daily_cards" ->
           {"id", "date", "user_id", "extra_work_description", "created_at",
            "updated_at"} \cup DDLScoreColumns
      [] OTHER -> {"id", "enable_email_notifications"}
\* the columns that the DDL lets be NULL and that a handler or a row may hold
\* as None
Nullable(table) ==
    CASE table = "users" ->
           {"phone", "member_id", "supervisor_id", "halqa_id", "referral_source",
            "rejection_note"}
      [] table = "halqas" -> {"supervisor_id"}
      [] table = "daily_cards" -> {"extra_work_description"}
      [] OTHER -> {}
\* obj.__table__.columns of the SQLAlchemy models
TableColumns(table) ==
    CASE table = "users" ->
           {"id", "member_id", "full_name", "gender", "age", "phone", "email",
            "password_hash", "country", "referral_source", "status", "role",
            "rejection_note", "halqa_id", "created_at", "updated_at"}
      [] table = "halqas" -> {"id", "name", "supervisor_id", "created_at"}
      [] table = "daily_cards" ->
           {"id", "user_id", "date", "extra_work_description", "created_at",
            "updated_at"} \cup {SCORE_FIELDS[i] : i \in 1..Len(SCORE_FIELDS)}
      [] OTHER -> {"id", "enable_email_notifications"}
\* mapper.relationships of the models: <<key, uselist>>
Relationships(table) ==
    CASE table = "users" ->
           {<<"halqa", FALSE>>, <<"daily_cards", TRUE>>, <<"supervised_halqa", FALSE>>}
      [] table = "halqas" -> {<<"supervisor", FALSE>>, <<"members", TRUE>>}
      [] table = "daily_cards" -> {<<"user", FALSE>>}
      [] OTHER -> {}
Entity(table, dict) == [table |-> table, dict |-> dict]
\* setattr(obj, key, value), by the kind of the value
SetKey(dict, key, kind) == {p \in dict : p[1] # key} \cup {<<key, kind>>}
RECURSIVE SetKeys(_, _, _)
SetKeys(dict, keys, kind) ==
    IF keys = {} THEN dict
    ELSE LET k == CHOOSE x \in keys : TRUE
         IN  SetKeys(SetKey(dict, k, kind), keys \ {k}, kind)
\* Model(**kwargs) of a handler: the instance state and the keys given
Built(table, keys, nulls) ==
    Entity(table, SetKeys({<<"_sa_instance_state", "value">>} \cup
                            {<<k, "value">> : k \in keys}, nulls, "None"))
\* _row_to_model of a row of the table, NULL in the columns of nulls: every
\* relationship is set to None or [], every column of the row is copied, and a
\* column 'name' goes under 'full_name' when the row has no 'full_name'
row_to_model(table, nulls) ==
    Entity(table,
           {<<"_sa_instance_state", "value">>}
             \cup {<<r[1], IF r[2] THEN "list" ELSE "None">> : r \in Relationships(table)}
             \cup {<<IF c = "name" /\ "full_name" \notin DDLColumns(table)
                        THEN "full_name" ELSE c,
                     IF c \in nulls THEN "None" ELSE "value">> : c \in DDLColumns(table)})
\* the keys of obj.__dict__ both translations keep: not private, not id, and
\* the value neither an entity nor a list
Kept(entity) ==
    {p[1] : p \in {q \in entity.dict :
                     /\ q[1] \notin {"_sa_instance_state", "id"}
                     /\ q[2] \notin {"entity", "list"}}}
\* the columns _insert_object names
insert_columns(entity) == Kept(entity)
\* the columns _update_object names in its SET clauses
update_columns(entity) == Kept(entity) \cap TableColumns(entity.table)
\* the entities the handlers hand to add(): register and import_users, the two
\* card handlers, create_halqa, update_settings
Added ==
    {[op |-> "register",
      entity |-> Built("users", {"member_id", "full_name", "gender", "age", "phone",
                                 "email", "country", "referral_source", "status",
                                 "role", "password_hash"}, {})],
     [op |-> "save_card",
      entity |-> Built("daily_cards",
                       {"user_id", "date", "extra_work_description"}
                          \cup {SCORE_FIELDS[i] : i \in 1..Len(SCORE_FIELDS)}, {})],
     [op |-> "save_card",
      entity |-> Built("daily_cards",
                       {"user_id", "date", "extra_work_description"}
                          \cup {SCORE_FIELDS[i] : i \in 1..Len(SCORE_FIELDS)},
                       {"extra_work_description"})],
     [op |-> "create_halqa",
      entity |-> Built("halqas", {"name", "supervisor_id"}, {})],
     [op |-> "create_halqa",
      entity |-> Built("halqas", {"name", "supervisor_id"}, {"supervisor_id"})],
     [op |-> "update_settings",
      entity |-> Built("site_settings", {"enable_email_notifications"}, {})]}
\* the entities the handlers hand to merge(): an account read from the store,
\* with role, status, password_hash, halqa_id or rejection_note assigned and
\* its group attached or not (login, reset_password, the admin routes), and a
\* group read from the store with name and supervisor_id assigned
Merged ==
    {[op |-> "login",
      entity |-> Entity("users",
                        SetKey(SetKeys(row_to_model("users", nulls).dict,
                                       {"role", "status", "password_hash"}, "value"),
                               "halqa", halqa))] :
        nulls \in SUBSET Nullable("users"), halqa \in {"None", "entity"}}
    \cup
    {[op |-> "update_halqa",
      entity |-> Entity("halqas",
                        SetKey(SetKey(row_to_model("halqas", nulls).dict,
                                      "name", "value"),
                               "supervisor_id", kind))] :
        nulls \in SUBSET Nullable("halqas"), kind \in {"None", "value"}}
translate_insert(a) ==
    /\ backend = "d1"
    /\ sent' = Sent("INSERT", a.op, a.entity, insert_columns(a.entity))
    /\ UNCHANGED <<svars, qvars, ivars, report, req, env, detected, rq, users,
                   halqas, daily_cards, tx, resp, scored>>
translate_update(m) ==
    /\ backend = "d1"
    /\ sent' = Sent("UPDATE", m.op, m.entity, update_columns(m.entity))
    /\ UNCHANGED <<svars, qvars, ivars, report, req, env, detected, rq, users,
                   halqas, daily_cards, tx, resp, scored>>
TrInit ==
    /\ Quiet
    /\ backend = "d1"
    /\ users = D1Seed
    /\ halqas = [h \in HalqaIds |-> NoHalqa]
    /\ daily_cards = {}
    /\ tx = [r \in Requests |-> NoTx]
    /\ resp = NoResp
TrNext ==
    \/ \E a \in Added : translate_insert(a)
    \/ \E m \in Merged : translate_update(m)
SpecStatements == TrInit /\ [][TrNext]_vars

\* ------------------------------------------------------------------ claims
Pending == <<pending_adds, pending_updates, pending_deletes>>
IsCommitted == last.op = "commit" /\ last.outcome = "ok"
Rank(kind) == CASE kind = "INSERT" -> 1 [] kind = "UPDATE" -> 2 [] OTHER -> 3
ObjsOf(lg, kind) ==
    LET sel == SelectSeq(lg, LAMBDA s : s.kind = kind)
    IN [i \in 1..Len(sel) |-> sel[i].obj]
RECURSIVE IsSubseq(_, _)
IsSubseq(a, b) ==
    IF a = <<>> THEN TRUE
    ELSE IF b = <<>> THEN FALSE
    ELSE IF Head(a) = Head(b) THEN IsSubseq(Tail(a), Tail(b))
    ELSE IsSubseq(a, Tail(b))
\* the table after the statements of lg, applied in order to st
RECURSIVE Replay(_, _)
Replay(st, lg) ==
    IF lg = <<>> THEN st
    ELSE LET s == Head(lg)
             nxt == CASE s.kind = "INSERT" -> [st EXCEPT ![s.id] = s.val]
                      [] s.kind = "UPDATE" ->
                            [st EXCEPT ![s.id] = IF @ = NoRow THEN NoRow ELSE s.val]
                      [] OTHER -> [st EXCEPT ![s.id] = NoRow]
         IN Replay(nxt, Tail(lg))
NoDup(list) == \A i, j \in 1..Len(list) : list[i] = list[j] => i = j
\* the stored form of a written value: temporal values as ISO-8601 text
WrittenForm(v) == IF v = "date(2026-03-01)" THEN "2026-03-01" ELSE v

\* C1: the statements one commit() applies are all INSERTs, then all UPDATEs,
\* then all DELETEs, and those of each kind follow the order in which add /
\* merge / delete enqueued their entities.
C1_CommitOrder ==
    [][last'.op = "commit" /\ log' # <<>> =>
        /\ \A i, j \in 1..Len(log') : i < j => Rank(log'[i].kind) <= Rank(log'[j].kind)
        /\ IsSubseq(ObjsOf(log', "INSERT"), pending_adds)
        /\ IsSubseq(ObjsOf(log', "UPDATE"), pending_updates)
        /\ IsSubseq(ObjsOf(log', "DELETE"), pending_deletes)]_vars

\* two inserts of different entities, in enqueue order, then a later kind
C1_Witness ==
    /\ IsCommitted /\ Len(log) = 3
    /\ log[1].kind = "INSERT" /\ log[2].kind = "INSERT" /\ log[1].obj # log[2].obj
    /\ log[3].kind # "INSERT"

\* C2: when the k-th statement of a commit() fails, the call raises, exactly
\* the k-1 statements before it are applied and stay applied, nothing after
\* it is executed, and the three pending lists are as they were.
C2_PartialCommit ==
    [][last'.op = "commit" /\ last'.n > Len(log') =>
        /\ last'.outcome = "StorageError"
        /\ Len(log') = last'.n - 1
        /\ storage' = Replay(storage, log')
        /\ Pending' = Pending]_vars

C2_Witness ==
    /\ last.op = "commit" /\ last.outcome = "StorageError"
    /\ last.n = 3 /\ Len(log) = 2 /\ NPending = 3
    /\ \E i \in Ids : storage[i] # NoRow

\* C3: a commit() that returns leaves the three pending lists empty, and a
\* commit() on a session whose lists are empty sends no statement.
C3_CommitClears ==
    [][last'.op = "commit" /\ last'.outcome = "ok" =>
        /\ pending_adds' = <<>> /\ pending_updates' = <<>> /\ pending_deletes' = <<>>
        /\ (IsCommitted \/ NPending = 0) =>
              log' = <<>> /\ last'.n = 0 /\ storage' = storage /\ seq' = seq]_vars

\* a commit that sent nothing, on a session that has committed rows before
C3_Witness ==
    /\ IsCommitted /\ log = <<>> /\ last.n = 0 /\ NPending = 0
    /\ \E i \in Ids : storage[i] # NoRow

\* C4: no entity is twice in the pending-update list; merging an entity that
\* is already pending leaves the list as it was; a commit sends at most one
\* UPDATE per merged entity.
C4_MergeIdempotent ==
    [][/\ NoDup(pending_updates')
       /\ NoDup(ObjsOf(log', "UPDATE"))
       /\ last'.op = "merge" /\ last'.ret.found => pending_updates' = pending_updates
       /\ last'.op = "merge" /\ ~last'.ret.found =>
             \E o \in Objs \ Range(pending_updates) :
                 pending_updates' = Append(pending_updates, o)]_vars

\* an entity merged again while it was pending, beside another pending one
C4_Witness ==
    /\ last.op = "merge" /\ last.ret.found
    /\ Len(pending_updates) = 2

\* C5: rollback() empties the three pending lists and leaves the table as it
\* is; the commit() that follows it sends no statement.
C5_RollbackDiscards ==
    [][/\ last'.op = "rollback" =>
             /\ pending_adds' = <<>> /\ pending_updates' = <<>> /\ pending_deletes' = <<>>
             /\ storage' = storage /\ seq' = seq /\ heap' = heap
       /\ last.op = "rollback" /\ last'.op = "commit" =>
             log' = <<>> /\ storage' = storage /\ seq' = seq]_vars

\* a rollback that dropped an insertable entity and two more operations
C5_Witness ==
    /\ last.op = "rollback" /\ last.n = 3 /\ NPending = 0
    /\ \E o \in Objs : heap[o].val = PyDate /\ heap[o].id = NoneId

\* C6: add(), merge() and delete() change the pending lists alone; the table
\* changes only in commit()/flush(), execute() and execute_many().
C6_EnqueueOnly ==
    [][/\ last'.op \in {"add", "merge", "delete"} =>
             storage' = storage /\ seq' = seq /\ heap' = heap /\ closed' = closed
       /\ (storage' # storage \/ seq' # seq) =>
             last'.op \in {"commit", "execute", "execute_many"}]_vars

\* an insertable entity is pending and the table is still empty
C6_Witness ==
    /\ last.op = "add" /\ pending_adds # <<>>
    /\ heap[pending_adds[Len(pending_adds)]].val = PyDate
    /\ seq = 0 /\ \A i \in Ids : storage[i] = NoRow

\* C7: get(type, id) returns None when id is None or no row has that key, the
\* row with that key otherwise, and changes neither the pending lists nor the
\* table.
C7_GetReadsOnly ==
    [][last'.op = "get" =>
        /\ Pending' = Pending /\ storage' = storage /\ seq' = seq /\ heap' = heap
        /\ IF last'.n = NoneId \/ storage[last'.n] = NoRow
           THEN ~last'.ret.found
           ELSE /\ last'.ret.found
                /\ last'.ret.id = last'.n
                /\ last'.ret.val = storage[last'.n]]_vars

\* a row was found while operations were pending
C7_Witness ==
    /\ last.op = "get" /\ last.ret.found /\ NPending > 0
    /\ \E i \in 1..last.n : storage[i] = NoRow

C8_ClosedRejectsAll ==
    [][closed /\ last'.op \notin {"close", "caller"} =>
        /\ last'.outcome = "RuntimeError"
        /\ Pending' = Pending /\ storage' = storage]_vars

\* C10: a query whose filters hold a membership test on an empty set, alone,
\* beside other filters, or as the one member of an OR group, returns no row.
IsEmptyIn(f) == f.tag = "in" /\ f.value = <<>>
C10_EmptyInSelectsNothing ==
    (qresult.done /\ \E i \in 1..Len(qfilters) :
            \/ IsEmptyIn(qfilters[i])
            \/ qfilters[i].tag = "or" /\ Len(qfilters[i].subs) = 1
                   /\ IsEmptyIn(qfilters[i].subs[1]))
        => qresult.rows = <<>>

\* in_([]) beside a filter that every row of a two-row table passes
C10_Witness ==
    /\ qresult.done /\ qresult.rows = <<>>
    /\ Len(qfilters) = 2 /\ IsEmptyIn(qfilters[2])
    /\ Len(execute_query(storage, <<qfilters[1]>>)) = 2

\* the value an expression compares with, as the dataset holds it
Operand(e) == IF e.field = "id" THEN e.value ELSE WrittenForm(e.value)
Contains(text, pattern) == pattern = "%03%" /\ text = "2026-03-01"
\* the in-memory evaluation of a filter expression on a row; a comparison
\* with an absent value is not true
RECURSIVE Holds(_, _)
Holds(row, e) ==
    IF e.type = "BooleanClauseList"
    THEN IF e.op = "or_"
         THEN \E i \in 1..Len(e.clauses) : Holds(row, e.clauses[i])
         ELSE \A i \in 1..Len(e.clauses) : Holds(row, e.clauses[i])
    ELSE LET c == Cell(row, e.field) IN
         IF e.field # "id" /\ c = "None" THEN FALSE
         ELSE CASE e.op = "in_op" -> \E i \in 1..Len(e.value) : c = e.value[i]
                [] e.op = "not_in_op" -> \A i \in 1..Len(e.value) : c # e.value[i]
                [] e.op = "ilike_op" -> Contains(c, e.value)
                [] e.op = "eq" -> c = Operand(e)
                [] e.op \in {"ne", "is_distinct_from"} -> c # Operand(e)
                [] e.op = "gt" -> Ord(e.field, c) > Ord(e.field, Operand(e))
                [] e.op = "ge" -> Ord(e.field, c) >= Ord(e.field, Operand(e))
                [] e.op = "lt" -> Ord(e.field, c) < Ord(e.field, Operand(e))
                [] OTHER -> Ord(e.field, c) <= Ord(e.field, Operand(e))
Selected(st, e) == SelectSeq(TableRows(st, 1), LAMBDA row : Holds(row, e))

\* C11 as claimed: the rows a query returns for one filter expression built
\* from comparisons, searches, memberships, and_() and or_() are exactly the
\* rows on which the expression is true.
C11_TranslationFaithful ==
    (qresult.done /\ qresult.call = "all" /\ qexpr # NoExpr /\ qexpr \notin OddConds)
        => qresult.rows = Selected(storage, qexpr)

\* C12 as claimed: an expression the translator does not recognise makes
\* filter() fail, so no query holding one returns; at the least the rows
\* returned are rows on which the expression is true.
C12_UnrecognisedRejected ==
    (qexpr \in OddConds \cup AndConds) =>
        /\ qfilters = <<>>
        /\ qresult.done => \A i \in 1..Len(qresult.rows) : Holds(qresult.rows[i], qexpr)

\* C13 as claimed: count() answers 0 when its statement fails or returns no
\* row and the number of matching rows otherwise; only a missing binding
\* makes it raise.
C13_CountDefaultsToZero ==
    (qresult.done /\ qresult.call = "count") =>
        /\ qresult.outcome \in {"ok", "AttributeError"}
        /\ qresult.outcome = "ok" =>
              qresult.cnt \in {0, Len(execute_query(storage, qfilters))}

\* the direction a column expression asks for
Requested(col) ==
    [field |-> col.field, dir |-> IF col.modifier = "desc" THEN "DESC" ELSE "ASC"]
\* C14 as claimed: order_by appends the directive each column expression asks
\* for, in call order, and all() returns exactly the rows that pass every
\* filter_by equality, sorted by the directives, the first one first.
C14_FilterByOrderBy ==
    [][/\ qorder' # qorder /\ qorder' # <<>> =>
             \E col \in OrderCols : Requested(col) = qorder'[Len(qorder')]
                                        /\ order_by_clause(col) = qorder'[Len(qorder')]
       /\ qresult'.done /\ qresult'.call = "all" =>
             /\ Len(qresult'.rows) = Len(execute_query(storage, qfilters))
             /\ Range(qresult'.rows) = Range(execute_query(storage, qfilters))
             /\ \A i, j \in 1..Len(qresult'.rows) :
                    i < j => ~Before(qresult'.rows[j], qresult'.rows[i], qorder)]_vars

\* a step of request p was taken
Stepped(p) == pc'[p] # pc[p]
Rows(d) == <<d.nadmin, d.nsettings, d.ncards>>

\* C15 as claimed: once an initialization of the database has succeeded, no
\* cron tick and no POST runs the DROP TABLE batch again.
C15_DropAtMostOnce ==
    [][runs > 0 => \A p \in Procs : ~(pc[p] = "drop" /\ Stepped(p))]_vars

\* C16 as claimed: a POST whose probe found the administrator changes
\* neither schema nor rows, and one administrator account exists after it.
C16_AlreadyInitialized ==
    [][((pc["post"] \in {"pragma", "mdrop", "mcreate"} /\ Stepped("post"))
          \/ (ilast'.step = "already_initialized" /\ ilast' # ilast))
        => db' = db /\ db'.nadmin = 1]_vars

\* C17: a run of the initialization routine that follows an earlier run, on
\* either backend, ends with exactly one site_settings row and exactly one
\* account with the primary administrator's email.
C17_SeedTwice ==
    [][(runs >= 1 /\ runs' = runs + 1) =>
          db'.nsettings = 1 /\ db'.nadmin = 1]_vars

\* the second run since the database was empty has just reported success
C17_Witness ==
    /\ runs = 2 /\ ilast.step = "initialized" /\ ilast.result = "success"
    /\ db.nsettings = 1 /\ db.nadmin = 1

\* C18: however initialization attempts overlap, there is never more than
\* one account with the primary administrator's email, and when every
\* attempt has ended there is exactly one.
C18_OneAdministrator ==
    /\ db.nadmin <= 1
    /\ (AllIdle /\ runs > 0) => db.nadmin = 1

\* two attempts overlapped and both seeded: two settings rows, one
\* administrator
C18_Witness ==
    /\ AllIdle /\ ilast.step = "initialized"
    /\ db.nsettings = 2 /\ db.nadmin = 1

\* C19 as claimed: no step of GET /system/health or GET /system/status
\* changes the schema or any row.
C19_HealthReadsOnly ==
    [][(Stepped("health") \/ (ilast'.proc = "health" /\ ilast' # ilast)) => db' = db]_vars

\* C20 as claimed: the migration the probe runs keeps every row of every
\* table, and the probe returns True with the current columns in place.
C20_MigrationAdditive ==
    [][\A p \in Procs :
          (pc[p] \in {"mdrop", "mcreate"} /\ Stepped(p)) =>
              /\ Rows(db') = Rows(db)
              /\ pc'[p] = "idle" => HasCurrentColumns(db') /\ ilast'.result = "True"]_vars

\* C21: initialize_database and initialize_d1_database never raise: a failure
\* at any step comes back as a report with success = false and a non-empty
\* errors list, whose per-step booleans are true only for steps that
\* completed before the failure
StepOf(fn, flag) ==
    IF fn = "initialize_d1_database"
    THEN CASE flag = "tables" -> "create" [] OTHER -> flag
    ELSE CASE flag = "tables" -> "create_all" [] OTHER -> flag
OrderOf(fn) == IF fn = "initialize_d1_database" THEN D1Order ELSE ConvOrder
C21_FailureReported ==
    (report.fn # "" /\ ilast.result = "failed") =>
        /\ report.outcome = "returned"
        /\ ~report.success
        /\ report.errors > 0
        /\ report.tables_created => Done(OrderOf(report.fn), StepOf(report.fn, "tables"), ilast.step)
        /\ report.settings_created => Done(OrderOf(report.fn), "settings", ilast.step)
        /\ report.admin_created => Done(OrderOf(report.fn), "admin", ilast.step)

\* C22: POST /system/initialize-database reaches the probe or the
\* initialization only when the X-Init-Secret header equals a configured
\* non-empty secret, or the bearer token is valid and belongs to a stored
\* account whose role is super_admin; every other request is rejected with
\* 401 or 403 and leaves storage unchanged
Entitled(r, d) ==
    \/ r.header = r.secret /\ r.secret # "None" /\ r.secret # ""
    \/ r.cred = "admin" /\ d.core /\ d.nadmin > 0 /\ d.role = "super_admin"
Received ==
    /\ pc["post"] = "idle"
    /\ ilast'.proc = "post"
    /\ ilast'.step \in {"rejected", "start", "already_initialized", "initialized"}
C22_InitializationGuarded ==
    [][Received =>
          IF Entitled(req', db)
          THEN TRUE
          ELSE /\ req'.verdict \in {"401", "403"}
               /\ ilast'.step = "rejected"
               /\ db' = db /\ pc' = pc /\ runs' = runs /\ storage' = storage]_vars
C22_Witness ==
    /\ req.verdict = "pass" /\ req.cred = "admin" /\ req.header # req.secret
    /\ pc["post"] = "probe"

\* C23: for every combination of environment signals, the session get_db
\* yields is a D1Session exactly when the detector resolves the serverless
\* backend and a SQLAlchemy session exactly when it resolves the conventional
\* one, and get_db does not fail because the signals disagree
C23_SessionMatchesDetector ==
    \A r \in Requests :
        rq[r].pc # "idle" =>
            \E backend_of \in {detect_environment(Context(env, rq[r].binding))} :
                /\ rq[r].kind = "D1Session" <=> backend_of = "cloudflare"
                /\ rq[r].kind = "Session" <=> backend_of = "server"
                /\ rq[r].exit # "TypeError"

\* C24: the detector always returns a value, and returns the conventional
\* backend when its signals are ambiguous or conflicting, as for a sqlite
\* connection string with no runtime variable and no binding
SqliteOnly(e, binding) == ~e.workers_var /\ ~e.pyodide /\ ~binding /\ e.url = "sqlite"
C24_AmbiguousIsConventional ==
    detected.value # "" =>
        /\ detected.value \in {"cloudflare", "server"}
        /\ SqliteOnly(env, detected.binding) => detected.value = "server"

\* C25: on every exit path of a request (return, HTTPException, unhandled
\* exception) the session get_db yielded is closed when the request ends, on
\* both backends
C25_SessionReleased ==
    \A r \in Requests : rq[r].pc = "done" => ~rq[r].open
C25_Witness ==
    /\ rq["r1"] = Rq("done", TRUE, "D1Session", FALSE, "unhandled")
    /\ rq["r2"] = Rq("done", FALSE, "Session", FALSE, "HTTPException")

\* C26: the backfill gives every account without a membership number a
\* distinct integer: the accounts are taken in ascending internal-id order and
\* numbered consecutively from max(existing member_id) + 1, or from 1000 when
\* no account has a number; no existing number changes.
C26_Backfill ==
    [][resp'.op = "backfill" =>
         LET W == {i \in Present(users) : users[i].member_id = 0}
             M == {users[i].member_id : i \in Present(users)} \ {0}
             start == IF M = {} THEN 1000
                      ELSE (CHOOSE x \in M : \A y \in M : y <= x) + 1
         IN  /\ \A i \in UserIds :
                  users'[i] =
                    IF i \in W
                    THEN [users[i] EXCEPT
                            !.member_id = start + Cardinality({j \in W : j < i})]
                    ELSE users[i]
             /\ \A i, j \in Present(users') :
                  /\ users'[i].member_id # 0
                  /\ i # j => users'[i].member_id # users'[j].member_id]_vars
\* existing {1000, 1002} plus two accounts without a number: 1003, then 1004
C26_Witness ==
    /\ resp.op = "backfill" /\ resp.user_id = 2
    /\ {users[i].member_id : i \in Present(users)} = {1000, 1002, 1003, 1004}
    /\ \E i, j \in Present(users) :
          i < j /\ users[i].member_id = 1003 /\ users[j].member_id = 1004

\* C27: after any sequence of register and import operations every stored
\* email is lower-cased and no two accounts share an email; a registration
\* whose email differs from an existing account's only by letter case is
\* rejected as a duplicate (400) and adds no account.
CaseVariant(raw, us) == \E i \in Present(us) : lower(raw) = us[i].email
C27_EmailsNormalisedUnique ==
    [][resp'.op \in {"register", "import"} =>
         /\ \A i \in Present(users') : users'[i].email = lower(users'[i].email)
         /\ \A i, j \in Present(users') :
               users'[i].email = users'[j].email => i = j
         /\ (resp'.op = "register" /\ resp'.status # 422
                /\ CaseVariant(resp'.email, users))
              => resp'.status = 400 /\ users' = users]_vars

\* C29: in every reachable state there is at most one daily card per
\* (user_id, date); an insert of a second card for a pair that has one fails
\* with a uniqueness violation and leaves the existing card as it was, also
\* when two save_card / update_member_card requests for the pair interleave
\* after both passed the existence check.
OnePerPair(rows) ==
    \A c1, c2 \in rows : c1.user_id = c2.user_id /\ c1.date = c2.date => c1 = c2
C29_OneCardPerDay ==
    [][/\ OnePerPair(daily_cards')
       /\ \A r \in Requests :
            (tx[r].at = "checked" /\ tx'[r].at = "idle"
                /\ CardOf(daily_cards, tx[r].user_id, tx[r].date) # {})
              => resp'.error = "IntegrityError" /\ daily_cards' = daily_cards]_vars
\* the second of two interleaved inserts for account 2 has failed with both
\* requests answered; the table holds the one card the first insert wrote
C29_Witness ==
    /\ resp.op = "update_member_card" /\ resp.error = "IntegrityError"
    /\ resp.user_id = 2
    /\ daily_cards = {DailyCard(2, 1, 1)}
    /\ tx["r1"] = NoTx /\ tx["r2"] = NoTx

\* C30: after every login with the correct password for the account whose
\* email is the configured primary-administrator email, that account's stored
\* role is super_admin and its stored status is active, whatever they were
\* before, and a token is issued.
C30_PrimaryAdminLogin ==
    [][(/\ resp'.op = "login" /\ resp'.password = "ok"
        /\ validate_email(resp'.email) = lower(AdminMail)
        /\ ByEmail(users, lower(AdminMail)) # {})
         => /\ \A i \in ByEmail(users', lower(AdminMail)) :
                  users'[i].role = "super_admin" /\ users'[i].status = "active"
            /\ resp'.token /\ resp'.status = 200]_vars

\* C31: for every daily card, total_score is the sum of all bounded score
\* fields of the persisted card (every score column of the daily_cards schema
\* and of the DailyCardCreate request), max_score is the number of those
\* fields times 10, and percentage is total / max * 100 rounded to one decimal.
ClaimedFields == DDLScoreColumns \cup DailyCardCreate
RECURSIVE SumSet(_, _)
SumSet(card, F) ==
    IF F = {} THEN 0
    ELSE LET f == CHOOSE x \in F : TRUE
         IN  Getattr(card, f) + SumSet(card, F \ {f})
C31_DerivedValues ==
    scored # NoScored =>
        /\ scored.total = SumSet(scored.card, ClaimedFields)
        /\ scored.max = Cardinality(ClaimedFields) * 10
        /\ \E t \in {scored.percentage} :
              /\ 2 * scored.max * t <= 2000 * SumSet(scored.card, ClaimedFields) + scored.max
              /\ 2 * scored.max * t > 2000 * SumSet(scored.card, ClaimedFields) - scored.max

\* C33: the site_settings table holds at most one row in every reachable
\* state, under any interleaving of initialization runs (cron and HTTP) and
\* PUT /api/settings requests, and exactly one row once an initialization has
\* completed.
C33_SettingsSingleton ==
    /\ db.nsettings <= 1
    /\ (AllIdle /\ runs > 0) => db.nsettings = 1

\* C34: after a commit that flushes a merged entity with a primary key, the
\* stored row with that key equals the entity on its mapped column: a non-null
\* field holds the entity's value (temporal values in their ISO-8601 text) and
\* is bound as a parameter, a null field is stored as NULL and written as a
\* literal with no bound parameter; a merged entity without a primary key
\* causes no statement.
Updates(lg, o) == {i \in 1..Len(lg) : lg[i].kind = "UPDATE" /\ lg[i].obj = o}
C34_UpdateTranslation ==
    [][last'.op = "commit" =>
        \A o \in Range(pending_updates) :
            /\ heap'[o].id = NoneId => Updates(log', o) = {}
            /\ \A i \in Updates(log', o) :
                  /\ log'[i].id = heap'[o].id
                  /\ storage'[heap'[o].id] \in {NoRow, WrittenForm(heap'[o].val)}
                  /\ log'[i].bound = IF heap'[o].val = PyNone THEN <<>>
                                     ELSE <<WrittenForm(heap'[o].val)>>]_vars

\* a commit updated a stored row to NULL with the literal, binding no value
C34_Witness ==
    /\ IsCommitted /\ Len(log) = 1 /\ log[1].kind = "UPDATE"
    /\ heap[log[1].obj].val = PyNone /\ log[1].bound = <<>>
    /\ storage[log[1].id] = PyNone

\* C35: a commit() called right after a commit() that failed at some statement
\* re-executes the pending operations from the first one: the statements the
\* failed commit had applied are sent again in the same order, it goes past
\* the point of the failure when nothing fails, and every INSERT applied
\* before the failure is sent a second time, which stores a second row beside
\* the first.
C35_RetryReexecutes ==
    [][retry' =>
        /\ \A i \in 1..Len(log) :
              i <= Len(log') =>
                 /\ log'[i].kind = log[i].kind /\ log'[i].obj = log[i].obj
                 /\ log[i].kind = "INSERT" =>
                       /\ log'[i].id # log[i].id
                       /\ storage'[log[i].id] = storage[log[i].id]
                       /\ log'[i].val = log[i].val
        /\ last'.outcome = "ok" => Len(log') > Len(log)]_vars

\* the retry succeeded and stored the entity a second time: rows 1 and 2 hold
\* the same value and the entity now carries the second key
C35_Witness ==
    /\ retry /\ IsCommitted
    /\ log[1].kind = "INSERT" /\ log[1].id = 2 /\ heap[log[1].obj].id = 2
    /\ storage[1] # NoRow /\ storage[1] = storage[2]

\* C36: under any interleaving of register (and import) requests with distinct
\* emails, the accounts created receive pairwise distinct member_ids, and no
\* request fails because the member_id it computed from the current maximum
\* was taken by another request in the meantime.
C36_ConcurrentNumbers ==
    [][\A r \in Requests :
          (tx[r].at = "numbered" /\ tx'[r] = NoTx) =>
              /\ \A i, j \in Present(users') :
                    (i # j /\ users'[i].member_id # 0) =>
                        users'[i].member_id # users'[j].member_id
              /\ ~unique_email(users, tx[r].email) => resp'.status = 200]_vars

\* C37: after a successful initialization on either backend, every account in
\* the database, the primary-administrator account created by that
\* initialization included, has a non-null member_id.
C37_AllNumbered ==
    [][resp'.op = "initialize" =>
          \A i \in Present(users') : users'[i].member_id # 0]_vars

\* C38: a set-role request issued by a super_admin other than the primary
\* administrator, whose requested role is super_admin or whose target is a
\* super_admin, is rejected with 403 and leaves the target's stored role, and
\* so the set of accounts holding super_admin, unchanged.
SuperAdmins(us) == {i \in Present(us) : us[i].role = "super_admin"}
C38_SuperAdminGuard ==
    [][\A actor \in Present(users), user_id \in Present(users), role \in RoleNames :
          (/\ set_user_role(actor, user_id, role)
           /\ users[actor].role = "super_admin"
           /\ users[actor].email # lower(AdminMail)
           /\ (role = "super_admin" \/ users[user_id].role = "super_admin"))
             => /\ resp'.status = 403
                /\ users'[user_id].role = users[user_id].role
                /\ SuperAdmins(users') = SuperAdmins(users)]_vars

\* C39: for each entity type, every column named by the INSERT or UPDATE that
\* D1Session generates for an entity built by the route handlers exists in
\* the serverless DDL of that entity's table.
C39_ColumnsExist ==
    sent # NoSent => sent.columns \subseteq DDLColumns(sent.entity.table)

====
